---- MODULE Spec2Model ----
(***************************************************************************)
(* The apply engine of VapiAI/gitops (src/src/push.ts): one run of main()  *)
(* reconciles the loaded resource documents against the remote platform,   *)
(* one HTTP call per step, followed by an optional second run on what the  *)
(* first run persisted.                                                    *)
(*                                                                         *)
(* Strings that the code only compares for equality are TLA+ strings.      *)
(* Strings that the code takes suffixes of (file paths, resource ids in    *)
(* filterResourcesByPaths) are sequences of segments, see Spelling.        *)
(***************************************************************************)
EXTENDS Integers, Sequences, FiniteSets, TLC

\* Number of runs of main() in one behaviour (the second run reloads the
\* persisted state and the same local files).
MaxRuns == 2
\* Number of HTTP calls the platform answers with an error in one behaviour.
MaxFailures == 1

----------------------------------------------------------------------------
(* Resource types, in the order main() applies them.                       *)

ResourceTypes ==
    << "tools", "structuredOutputs", "assistants", "squads",
       "personalities", "scenarios", "simulations", "simulationSuites" >>

TypeSet == { ResourceTypes[i] : i \in 1..Len(ResourceTypes) }

Range(s) == { s[i] : i \in 1..Len(s) }

RECURSIVE Flatten(_)
Flatten(ss) == IF ss = << >> THEN << >> ELSE Head(ss) \o Flatten(Tail(ss))

----------------------------------------------------------------------------
(* Strings with structure: paths and resource ids as segment sequences.    *)

\* The spelling of a resource id, cut at the one place where one id of the
\* model is a proper suffix of another ("agent" of "my-agent").
Spelling(id) == IF id = "my-agent" THEN << "my-", "agent" >> ELSE << id >>

\* The folder of a resource type below resources/.
Folder(type) ==
    CASE type = "tools"             -> << "tools/" >>
      [] type = "structuredOutputs" -> << "structuredOutputs/" >>
      [] type = "assistants"        -> << "assistants/" >>
      [] type = "squads"            -> << "squads/" >>
      [] type = "personalities"     -> << "simulations/", "personalities/" >>
      [] type = "scenarios"         -> << "simulations/", "scenarios/" >>
      [] type = "simulations"       -> << "simulations/", "tests/" >>
      [] type = "simulationSuites"  -> << "simulations/", "suites/" >>

\* Assistants are Markdown files, everything else is YAML.
Extension(type) == IF type = "assistants" THEN ".md" ELSE ".yml"

\* The path a user gives on the command line for one resource file.
RelativePath(type, id) ==
    << "resources/" >> \o Folder(type) \o Spelling(id) \o << Extension(type) >>

\* ResourceFile.filePath as the Loader reports it.
FilePath(type, id) == << "/repo/" >> \o RelativePath(type, id)

\* String.prototype.endsWith
EndsWith(s, suffix) ==
    /\ Len(suffix) <= Len(s)
    /\ SubSeq(s, Len(s) - Len(suffix) + 1, Len(s)) = suffix

\* filePath.replace(/\.(yml|yaml|md|ts)$/, "")
StripExtension(path) ==
    IF Len(path) > 0 /\ path[Len(path)] \in { ".yml", ".yaml", ".md", ".ts" }
    THEN SubSeq(path, 1, Len(path) - 1)
    ELSE path

----------------------------------------------------------------------------
(* Remote identifiers.                                                     *)

UUID(n) == "uuid-" \o ToString(n)

\* The remote id of an assistant that lives on the platform only: a local
\* document may name it directly.
PlatformAssistant == "uuid-platform"

\* The local documents a repository may hold: one handoff tool that names
\* an assistant by its local name and another by its remote id, a plain
\* tool, a structured output that lists the assistant,
\* the assistant that uses all three, a squad of the assistant and the
\* simulation chain suite -> simulation -> personality, scenario -> output.
Catalog ==
    << [ type |-> "tools", resourceId |-> "agent",
         data |-> [ type |-> "handoff",
                    destinations |->
                      << [ type |-> "number", number |-> "+15551234567" ],
                         [ type |-> "assistant", assistantId |-> "my-agent" ],
                         [ type |-> "assistant",
                           assistantId |-> PlatformAssistant ] >> ] ],
       [ type |-> "tools", resourceId |-> "lookup",
         data |-> [ type |-> "function", credentialId |-> "server-credential" ] ],
       [ type |-> "structuredOutputs", resourceId |-> "summary",
         data |-> [ assistant_ids |-> << "my-agent" >> ] ],
       [ type |-> "assistants", resourceId |-> "my-agent",
         data |-> [ toolIds |-> << "agent" >>,
                    structuredOutputIds |-> << "summary" >> ] ],
       [ type |-> "squads", resourceId |-> "team",
         data |-> [ members |-> << [ assistantId |-> "my-agent" ] >> ] ],
       [ type |-> "personalities", resourceId |-> "sam",
         data |-> [ name |-> "sam" ] ],
       [ type |-> "scenarios", resourceId |-> "happy",
         data |-> [ evaluations |-> << [ structuredOutputId |-> "summary" ] >> ] ],
       [ type |-> "simulations", resourceId |-> "test1",
         data |-> [ personalityId |-> "sam", scenarioId |-> "happy" ] ],
       [ type |-> "simulationSuites", resourceId |-> "batch",
         data |-> [ simulationIds |-> << "test1" >> ] ] >>

Key(d) == << d.type, d.resourceId >>

Keys == { Key(Catalog[i]) : i \in 1..Len(Catalog) }

\* The payloads the resolver is tried on: those of the catalog, a tool whose
\* destination carries notes after the marker, an assistant that names its
\* tools by local name and by remote id, and a structured output that lists
\* an assistant with notes and one by remote id.
Documents ==
    { Catalog[i].data : i \in 1..Len(Catalog) }
    \cup { [ type |-> "handoff",
             destinations |->
               << [ type |-> "assistant", assistantId |-> "my-agent ## greeter" ] >> ],
           [ toolIds |-> << "agent", UUID(2), "lookup" >>,
             structuredOutputIds |-> << >> ],
           [ assistant_ids |-> << "my-agent ## greeter", PlatformAssistant >> ] }

\* The remote id the platform gave a catalog document in an earlier run.
SeedId(key) == UUID(CHOOSE i \in 1..Len(Catalog) : Key(Catalog[i]) = key)

\* Every remote id a behaviour can see: the seeds, one per create call and
\* the one the documents name.
UUIDs ==
    { UUID(n) : n \in 1..(Len(Catalog) * (MaxRuns + 1)) } \cup { PlatformAssistant }

----------------------------------------------------------------------------
(* The Identifier Store: one mapping resourceId -> remote id per resource  *)
(* type, and the credential mapping name -> remote id.                     *)

StoreKeys == TypeSet \cup { "credentials" }

NoEntries == [ k \in {} |-> "" ]

\* A store write that replaces the mapping of the type by the one entry.
PutReplacing(st, type, id, uuid) ==
    [ st EXCEPT ![type] = [ k \in { id } |-> uuid ] ]

\* state[type][id] = uuid
Put(st, type, id, uuid) ==
    [ st EXCEPT ![type] =
        [ k \in DOMAIN @ \cup { id } |-> IF k = id THEN uuid ELSE @[k] ] ]

\* delete state[type][id]
Remove(st, type, id) ==
    [ st EXCEPT ![type] = [ k \in DOMAIN @ \ { id } |-> @[k] ] ]

\* !!state[type][id]
Has(st, type, id) == id \in DOMAIN st[type]

\* UUID_REGEX.test(value)
IsUUID(value) == value \in UUIDs

----------------------------------------------------------------------------
(* Credential resolution (credentials.ts).                                 *)

\* name -> uuid, from state.credentials
credentialForwardMap(st) == st["credentials"]

\* walk() on a string
ReplaceString(value, replacements) ==
    IF value \in DOMAIN replacements THEN replacements[value] ELSE value

\* walk() on an object whose values are strings
ReplaceInObject(obj, replacements) ==
    [ g \in DOMAIN obj |-> ReplaceString(obj[g], replacements) ]

\* walk() on a payload field: a string, an array of strings, an array of
\* objects of strings, or another scalar, by the field's name.
walk(field, value, replacements) ==
    CASE field \in { "type", "name", "credentialId", "personalityId", "scenarioId" } ->
           ReplaceString(value, replacements)
      [] field \in { "toolIds", "structuredOutputIds", "assistant_ids", "simulationIds" } ->
           [ i \in 1..Len(value) |-> ReplaceString(value[i], replacements) ]
      [] field \in { "destinations", "members", "evaluations" } ->
           [ i \in 1..Len(value) |-> ReplaceInObject(value[i], replacements) ]
      [] OTHER -> value

deepReplaceValues(obj, replacements) ==
    IF DOMAIN replacements = {} THEN obj
    ELSE [ f \in DOMAIN obj |-> walk(f, obj[f], replacements) ]

----------------------------------------------------------------------------
(* The reference resolver.                                                 *)

\* value.split("##")[0].trim(): a reference may carry local-only notes
\* after a "##" marker.
BeforeMarker(value) ==
    IF value = "my-agent ## greeter" THEN "my-agent" ELSE value

\* A resolver that blanks what it cannot resolve.
ResolveIdBlankingUnknown(st, type, value) ==
    IF IsUUID(value) THEN value
    ELSE IF Has(st, type, BeforeMarker(value)) THEN st[type][BeforeMarker(value)]
    ELSE ""

\* One reference: a remote id passes through, a known local id (its marker
\* stripped) becomes its remote id, an unknown local id stays.
ResolveId(st, type, value) ==
    IF IsUUID(value) THEN value
    ELSE IF Has(st, type, BeforeMarker(value)) THEN st[type][BeforeMarker(value)]
    ELSE BeforeMarker(value)

ResolveIds(st, type, values) ==
    [ i \in 1..Len(values) |-> ResolveId(st, type, values[i]) ]

\* One array of objects that carry a reference in field `key`.
ResolveIn(st, type, key, objs) ==
    [ i \in 1..Len(objs) |->
        IF key \in DOMAIN objs[i]
        THEN [ objs[i] EXCEPT ![key] = ResolveId(st, type, @) ]
        ELSE objs[i] ]

\* resolveAssistantIds(ids, state)
resolveAssistantIds(ids, st) == ResolveIds(st, "assistants", ids)

\* A resolver that takes the assistants of a structured output from the
\* local spelling of the field only.
ResolveLinksFromLocalFieldOnly(st, data) ==
    IF "assistant_ids" \in DOMAIN data
    THEN resolveAssistantIds(data["assistant_ids"], st)
    ELSE << >>

\* The assistants a structured output is linked to, resolved: the list is
\* written assistant_ids in the local document and assistantIds in a
\* payload.
ResolveLinks(st, data) ==
    resolveAssistantIds(IF "assistant_ids" \in DOMAIN data
                        THEN data["assistant_ids"] ELSE data["assistantIds"], st)

ResolveField(st, data, f) ==
    CASE f = "toolIds"             -> ResolveIds(st, "tools", data[f])
      [] f = "structuredOutputIds" -> ResolveIds(st, "structuredOutputs", data[f])
      [] f = "simulationIds"       -> ResolveIds(st, "simulations", data[f])
      [] f = "personalityId"       -> ResolveId(st, "personalities", data[f])
      [] f = "scenarioId"          -> ResolveId(st, "scenarios", data[f])
      [] f = "destinations"        -> ResolveIn(st, "assistants", "assistantId", data[f])
      [] f = "members"             -> ResolveIn(st, "assistants", "assistantId", data[f])
      [] f = "evaluations"         ->
           ResolveIn(st, "structuredOutputs", "structuredOutputId", data[f])
      [] f = "assistantIds"        -> ResolveLinks(st, data)
      [] OTHER                     -> data[f]

\* resolveReferences(data, state): a copy of data with every reference field
\* resolved; the local assistant_ids list is sent as assistantIds.
resolveReferences(data, st) ==
    LET fields == (DOMAIN data \ { "assistant_ids" })
                    \cup (IF "assistant_ids" \in DOMAIN data
                          THEN { "assistantIds" } ELSE {})
    IN  [ f \in fields |-> ResolveField(st, data, f) ]

\* extractReferencedIds(data): the local ids a payload names, per type.
extractReferencedIds(data) ==
    [ tools |-> IF "toolIds" \in DOMAIN data THEN data.toolIds ELSE << >>,
      structuredOutputs |->
          IF "structuredOutputIds" \in DOMAIN data
          THEN data.structuredOutputIds ELSE << >>,
      assistants |->
          IF "members" \in DOMAIN data
          THEN [ i \in 1..Len(data.members) |-> data.members[i].assistantId ]
          ELSE << >> ]

\* UPDATE_EXCLUDED_KEYS: what the platform rejects on update, per type.
ExcludedKeys(type) ==
    IF type \in { "tools", "structuredOutputs" } THEN { "type" } ELSE {}

\* removeExcludedKeys(payload, type)
removeExcludedKeys(payload, type) ==
    [ f \in DOMAIN payload \ ExcludedKeys(type) |-> payload[f] ]

----------------------------------------------------------------------------
(* The state of the program and of its environment.                        *)

VARIABLES
    local,          \* what the Loader yields: type -> sequence of ResourceFile
    memory,         \* the lists main() holds (allTools, ...): the loaded
                    \* documents without platform defaults, credentials
                    \* replaced
    filter,         \* APPLY_FILTER: resourceTypes and filePaths
    force,          \* FORCE_DELETE
    disk,           \* the persisted state file
    state,          \* the StateFile main() holds in memory
    start,          \* what loadState() returned when the current run began
    run,            \* number of runs of main() started
    pc,             \* "idle", "running", "done" (exit 0) or "failed" (exit 1)
    todo,           \* what the running main() has still to do, in order
    autoApplied,    \* depCtx.autoApplied, as << type, id >> pairs
    autoAppliedTools,               \* depCtx.autoAppliedTools (resource ids)
    autoAppliedStructuredOutputs,   \* depCtx.autoAppliedStructuredOutputs
    calls,          \* every HTTP call issued so far, over all runs
    nextId,         \* the number of the next remote id the platform assigns
    failures,       \* HTTP calls answered with an error so far
    now,            \* Date.now(), in ms
    lastRequestTime,    \* api.ts: when the last request was let through
    attempt,        \* the loop counter of the running client call
    at,             \* where the client is: "idle", "loop", "fetch",
                    \* "returned" or "thrown"
    request,        \* the running client call: method and endpoint
    sent,           \* every request sent so far, over all client calls
    delays,         \* the backoff delays of the running client call
    outcome,        \* what the last client call returned or threw
    ncalls,         \* client calls started so far
    doc,            \* the document handed to the resolver
    resolutions,    \* what resolveReferences returned for it, and for what
                    \* it returned, in turn
    env,            \* process.argv[2] of the sync commands
    argv,           \* process.argv.slice(3) of the sync commands
    step,           \* where main() of the sync command is
    commands,       \* the child processes run so far, with their exit status
    tree,           \* git: the working tree ("clean", "tracked" changes,
                    \* "untracked" files only, or "both")
    stash,          \* git: the stash, newest entry first
    hadLocalChanges \* apply.ts: const hadLocalChanges

\* The apply engine (push.ts) and the HTTP client (api.ts).
engineVars == << local, memory, filter, force, disk, state, start, run, pc, todo,
                 autoApplied, autoAppliedTools, autoAppliedStructuredOutputs,
                 calls, nextId, failures >>

clientVars == << now, lastRequestTime, attempt, at, request, sent, delays,
                 outcome, ncalls >>

\* The reference resolver on its own.
resolverVars == << doc, resolutions >>

\* The sync commands (apply.ts) and the git repository they run in.
shellVars == << env, argv, step, commands, tree, stash, hadLocalChanges >>

vars == << local, memory, filter, force, disk, state, start, run, pc, todo,
           autoApplied, autoAppliedTools, autoAppliedStructuredOutputs, calls,
           nextId, failures, now, lastRequestTime, attempt, at, request, sent,
           delays, outcome, ncalls, doc, resolutions, env, argv, step, commands,
           tree, stash, hadLocalChanges >>

----------------------------------------------------------------------------
(* Resource lists of main().                                               *)

isDefault(r) ==
    "_platformDefault" \in DOMAIN r.data /\ r.data["_platformDefault"] = TRUE

\* A filterDefaults that lets platform defaults through.
filterDefaultsKeepingAll(resources) == resources

\* filterDefaults(resources)
filterDefaults(resources) == SelectSeq(resources, LAMBDA r : ~isDefault(r))

\* resolveCredentials(resources)
resolveCredentials(resources, credMap) ==
    [ i \in 1..Len(resources) |->
        [ resources[i] EXCEPT !.data = deepReplaceValues(@, credMap) ] ]

\* What main() makes of the Loader's lists: platform defaults filtered out,
\* credentials resolved. credMap is built once, from the state as loaded at
\* the start of the run.
LoadedResources(st) ==
    [ t \in TypeSet |->
        resolveCredentials(filterDefaults(local[t]), credentialForwardMap(st)) ]

\* allTools, allStructuredOutputs, ...: the list of a type main() holds.
AllResources(type) == memory[type]

\* isPartialApply()
isPartialApply == Len(filter.resourceTypes) > 0 \/ Len(filter.filePaths) > 0

\* shouldApplyResourceType(type)
shouldApplyResourceType(type) ==
    IF Len(filter.filePaths) > 0 THEN TRUE
    ELSE IF Len(filter.resourceTypes) > 0 THEN type \in Range(filter.resourceTypes)
    ELSE TRUE

\* The test of filterResourcesByPaths for one resource and one path.
MatchesPath(resource, filePath) ==
    \/ EndsWith(resource.filePath, filePath)
    \/ \E ext \in { ".yml", ".yaml", ".md", ".ts" } :
          EndsWith(filePath, Spelling(resource.resourceId) \o << ext >>)
    \/ resource.filePath = filePath
    \/ Spelling(resource.resourceId) = StripExtension(filePath)

\* filterResourcesByPaths(resources, type)
filterResourcesByPaths(resources, type) ==
    IF Len(filter.filePaths) = 0 THEN resources
    ELSE SelectSeq(resources,
                   LAMBDA r : \E i \in 1..Len(filter.filePaths) :
                                 MatchesPath(r, filter.filePaths[i]))

\* tools, structuredOutputs, ...: the resources of a type this run applies.
Scoped(type) ==
    IF shouldApplyResourceType(type)
    THEN filterResourcesByPaths(AllResources(type), type)
    ELSE << >>

\* A typesToDelete that ignores the filter.
typesToDeleteEveryType == ResourceTypes

\* typesToDelete of a partial apply (undefined in a full apply).
typesToDelete ==
    IF Len(filter.resourceTypes) > 0 THEN filter.resourceTypes
    ELSE SelectSeq(ResourceTypes, LAMBDA t : Len(Scoped(t)) > 0)

\* resources.find(r => r.resourceId === id), given that it finds one
Find(resources, id) ==
    resources[CHOOSE i \in 1..Len(resources) : resources[i].resourceId = id]

Found(resources, id) ==
    \E i \in 1..Len(resources) : resources[i].resourceId = id

----------------------------------------------------------------------------
(* The apply functions: the request each one sends.                        *)

\* Strip destinations with unresolved assistantIds.
stripUnresolvedAssistantDestinations(resolved, original) ==
    IF "destinations" \notin DOMAIN resolved THEN resolved
    ELSE
      LET originalDests == original.destinations
          resolvedDests == resolved.destinations
          keep(idx) ==
              IF "assistantId" \notin DOMAIN resolvedDests[idx] THEN TRUE
              ELSE IF idx > Len(originalDests)
                      \/ "assistantId" \notin DOMAIN originalDests[idx] THEN TRUE
              ELSE resolvedDests[idx].assistantId
                     # BeforeMarker(originalDests[idx].assistantId)
          kept == SelectSeq([ i \in 1..Len(resolvedDests) |-> i ], keep)
      IN  [ resolved EXCEPT
              !.destinations = [ j \in 1..Len(kept) |-> resolvedDests[kept[j]] ] ]

\* An apply that creates whatever the store holds.
RequestAlwaysCreating(type, resourceId, st, updatePayload, createPayload) ==
    [ method |-> "POST", uuid |-> "", body |-> createPayload ]

\* The tail shared by the eight apply functions: PATCH the stored remote id
\* with the update payload, or POST the create payload.
Request(type, resourceId, st, updatePayload, createPayload) ==
    IF Has(st, type, resourceId)
    THEN [ method |-> "PATCH", uuid |-> st[type][resourceId], body |-> updatePayload ]
    ELSE [ method |-> "POST", uuid |-> "", body |-> createPayload ]

applyTool(resource, st) ==
    LET payload == resolveReferences(resource.data, st)
        payloadForCreate == stripUnresolvedAssistantDestinations(payload, resource.data)
    IN  Request("tools", resource.resourceId, st,
                removeExcludedKeys(payload, "tools"), payloadForCreate)

applyStructuredOutput(resource, st) ==
    LET payload == resolveReferences(resource.data, st)
        payloadWithoutAssistants ==
            [ f \in DOMAIN payload \ { "assistantIds" } |-> payload[f] ]
    IN  Request("structuredOutputs", resource.resourceId, st,
                removeExcludedKeys(payload, "structuredOutputs"),
                payloadWithoutAssistants)

applyAssistant(resource, st) ==
    LET payload == resolveReferences(resource.data, st)
    IN  Request("assistants", resource.resourceId, st,
                removeExcludedKeys(payload, "assistants"), payload)

applySquad(resource, st) ==
    LET payload == resolveReferences(resource.data, st)
    IN  Request("squads", resource.resourceId, st,
                removeExcludedKeys(payload, "squads"), payload)

\* Personalities hold no references: the payload is the data itself.
applyPersonality(resource, st) ==
    LET payload == resource.data
    IN  Request("personalities", resource.resourceId, st,
                removeExcludedKeys(payload, "personalities"), payload)

applyScenario(resource, st) ==
    LET payload == resolveReferences(resource.data, st)
    IN  Request("scenarios", resource.resourceId, st,
                removeExcludedKeys(payload, "scenarios"), payload)

applySimulation(resource, st) ==
    LET payload == resolveReferences(resource.data, st)
    IN  Request("simulations", resource.resourceId, st,
                removeExcludedKeys(payload, "simulations"), payload)

applySimulationSuite(resource, st) ==
    LET payload == resolveReferences(resource.data, st)
    IN  Request("simulationSuites", resource.resourceId, st,
                removeExcludedKeys(payload, "simulationSuites"), payload)

\* The apply function main() calls in the pass of each type.
ApplyFunction(type, resource, st) ==
    CASE type = "tools"             -> applyTool(resource, st)
      [] type = "structuredOutputs" -> applyStructuredOutput(resource, st)
      [] type = "assistants"        -> applyAssistant(resource, st)
      [] type = "squads"            -> applySquad(resource, st)
      [] type = "personalities"     -> applyPersonality(resource, st)
      [] type = "scenarios"         -> applyScenario(resource, st)
      [] type = "simulations"       -> applySimulation(resource, st)
      [] type = "simulationSuites"  -> applySimulationSuite(resource, st)

\* An apply function that resolves and strips the destinations of the
\* document it was given in place.
ResourcesAfterUseStrippedInPlace(resources, resourceId, st) ==
    [ i \in 1..Len(resources) |->
        IF resources[i].resourceId = resourceId
           /\ "destinations" \in DOMAIN resources[i].data
        THEN [ resources[i] EXCEPT
                 !.data.destinations =
                     stripUnresolvedAssistantDestinations(
                         resolveReferences(resources[i].data, st),
                         resources[i].data).destinations ]
        ELSE resources[i] ]

\* What an apply function or a reference update of the second pass leaves
\* of the list whose element it was given. Each builds what it sends as a
\* new object: resolveReferences returns a copy, the destinations are
\* filtered into a new array inside a spread copy, assistantIds is left out
\* by destructuring into a new object. The list is as it was.
ResourcesAfterUse(resources, resourceId, st) == resources

----------------------------------------------------------------------------
(* The plan of one run: main() is sequential, and the lists it loops over  *)
(* are fixed once the resources are loaded and filtered, so what is left   *)
(* to do is a sequence of items, handled one per step from the front.      *)

Item(op, type, id) == [ op |-> op, type |-> type, id |-> id ]

\* for (const r of <type list>) { apply; state[type][r.resourceId] = uuid }
ApplyItems(type) ==
    [ i \in 1..Len(Scoped(type)) |-> Item("apply", type, Scoped(type)[i].resourceId) ]

\* A dependency resolution that goes on from each tool to the assistants
\* its destinations name.
ToolAndOutputItemsReentering(data) ==
    LET refs == extractReferencedIds(data)
        onward(toolId) ==
            IF Found(AllResources("tools"), toolId)
               /\ "destinations" \in DOMAIN Find(AllResources("tools"), toolId).data
            THEN LET named ==
                         SelectSeq(Find(AllResources("tools"), toolId).data.destinations,
                                   LAMBDA d : "assistantId" \in DOMAIN d)
                 IN  [ j \in 1..Len(named) |->
                         Item("ensureAssistant", "assistants", named[j].assistantId) ]
            ELSE << >>
    IN  Flatten([ j \in 1..Len(refs.tools) |->
                    << Item("ensureTool", "tools", refs.tools[j]) >>
                    \o onward(refs.tools[j]) ])
        \o [ j \in 1..Len(refs.structuredOutputs) |->
               Item("ensureOutput", "structuredOutputs", refs.structuredOutputs[j]) ]

\* The two inner loops over refs.tools and refs.structuredOutputs.
ToolAndOutputItems(data) ==
    LET refs == extractReferencedIds(data)
    IN  [ j \in 1..Len(refs.tools) |-> Item("ensureTool", "tools", refs.tools[j]) ]
        \o [ j \in 1..Len(refs.structuredOutputs) |->
               Item("ensureOutput", "structuredOutputs", refs.structuredOutputs[j]) ]

\* An assistants pass without auto-dependency resolution.
NoAssistantDependencyItems == << >>

\* Auto-resolve the tool and structured output dependencies of the
\* assistants in scope.
AssistantDependencyItems ==
    Flatten([ i \in 1..Len(Scoped("assistants")) |->
                ToolAndOutputItems(Scoped("assistants")[i].data) ])

\* A squads pass without auto-dependency resolution.
NoSquadDependencyItems == << >>

\* Auto-resolve the assistant dependencies of the squads in scope.
SquadDependencyItems ==
    Flatten([ i \in 1..Len(Scoped("squads")) |->
                LET refs == extractReferencedIds(Scoped("squads")[i].data)
                IN  [ j \in 1..Len(refs.assistants) |->
                        Item("ensureAssistant", "assistants", refs.assistants[j]) ] ])

\* A main() that applies the assistants before the tools.
PlanAssistantsFirst ==
    << Item("deleteOrphans", "", "") >>
    \o AssistantDependencyItems \o ApplyItems("assistants")
    \o ApplyItems("tools")
    \o ApplyItems("structuredOutputs")
    \o SquadDependencyItems \o ApplyItems("squads")
    \o ApplyItems("personalities")
    \o ApplyItems("scenarios")
    \o ApplyItems("simulations")
    \o ApplyItems("simulationSuites")
    \o << Item("linkTools", "", ""), Item("linkOutputs", "", ""),
          Item("save", "", "") >>

\* A main() that checks for orphans after the type passes.
PlanDeletingLast ==
    ApplyItems("tools")
    \o ApplyItems("structuredOutputs")
    \o AssistantDependencyItems \o ApplyItems("assistants")
    \o SquadDependencyItems \o ApplyItems("squads")
    \o ApplyItems("personalities")
    \o ApplyItems("scenarios")
    \o ApplyItems("simulations")
    \o ApplyItems("simulationSuites")
    \o << Item("deleteOrphans", "", ""),
          Item("linkTools", "", ""), Item("linkOutputs", "", ""),
          Item("save", "", "") >>

\* A main() that links after the assistants pass, outputs before tools.
PlanLinkingEarly ==
    << Item("deleteOrphans", "", "") >>
    \o ApplyItems("tools")
    \o ApplyItems("structuredOutputs")
    \o AssistantDependencyItems \o ApplyItems("assistants")
    \o << Item("linkOutputs", "", ""), Item("linkTools", "", "") >>
    \o SquadDependencyItems \o ApplyItems("squads")
    \o ApplyItems("personalities")
    \o ApplyItems("scenarios")
    \o ApplyItems("simulations")
    \o ApplyItems("simulationSuites")
    \o << Item("save", "", "") >>

Plan ==
    << Item("deleteOrphans", "", "") >>
    \o ApplyItems("tools")
    \o ApplyItems("structuredOutputs")
    \o AssistantDependencyItems \o ApplyItems("assistants")
    \o SquadDependencyItems \o ApplyItems("squads")
    \o ApplyItems("personalities")
    \o ApplyItems("scenarios")
    \o ApplyItems("simulations")
    \o ApplyItems("simulationSuites")
    \o << Item("linkTools", "", ""), Item("linkOutputs", "", ""),
          Item("save", "", "") >>

----------------------------------------------------------------------------
(* Orphan detection.                                                       *)

\* The types whose store entries are checked: typesToDelete, or every type
\* when it is undefined (a full apply).
OrphanTypes == IF isPartialApply THEN Range(typesToDelete) ELSE TypeSet

\* Store entries of a checked type with no loaded document of that id. The
\* documents are the raw lists, platform defaults included.
Orphans(st, loaded, types) ==
    { k \in UNION { { << t, id >> : id \in DOMAIN st[t] } : t \in types } :
        ~Found(loaded[k[1]], k[2]) }

\* The lists with the platform defaults filtered out.
OrphanCheckListsWithoutDefaults == [ t \in TypeSet |-> filterDefaults(local[t]) ]

\* What main() hands to deleteOrphanedResources: the raw (unfiltered) lists,
\* so that platform defaults are not mistaken for orphans.
OrphanCheckLists == local

\* The orders in which a set can be walked.
Orders(S) ==
    { s \in [ 1..Cardinality(S) -> S ] :
        \A i, j \in 1..Cardinality(S) : i # j => s[i] # s[j] }

----------------------------------------------------------------------------
(* One HTTP call and its answer.                                           *)

NoBody == [ f \in {} |-> "" ]

\* The call is logged with the remote id it addresses (PATCH, DELETE) or
\* the one the platform assigns (a successful POST).
Exchange(kind, type, id, req, ok) ==
    /\ ok \/ failures < MaxFailures
    /\ calls' = Append(calls,
                  [ run |-> run, kind |-> kind, method |-> req.method,
                    type |-> type, id |-> id,
                    uuid |-> IF ok /\ req.method = "POST" THEN UUID(nextId)
                             ELSE req.uuid,
                    ok |-> ok, body |-> req.body ])
    /\ nextId' = IF ok /\ req.method = "POST" THEN nextId + 1 ELSE nextId
    /\ failures' = IF ok THEN failures ELSE failures + 1

\* A vapiRequest that returns whatever the platform answers.
vapiRequestSwallowingErrors(responseOk) == TRUE

\* vapiRequest returns when the platform's final answer is a 2xx response
\* and throws a VapiApiError otherwise.
vapiRequest(responseOk) == responseOk

\* A vapiDelete that returns whatever the platform answers.
vapiDeleteSwallowingErrors(responseOk) == TRUE

\* vapiDelete, likewise.
vapiDelete(responseOk) == responseOk

\* An apply function that returns a new id whatever it sent.
ReturnedAlwaysNew(req) == UUID(nextId)

\* What the apply function returns: result.id or existingUuid.
Returned(req) == IF req.method = "POST" THEN UUID(nextId) ELSE req.uuid

\* An error handler that logs and goes on with the next step.
AbortContinuing ==
    /\ pc' = pc
    /\ todo' = Tail(todo)

\* The error is printed and rethrown; main().catch exits with status 1.
Abort ==
    /\ pc' = "failed"
    /\ todo' = << >>

Running(op) == pc = "running" /\ todo # << >> /\ Head(todo).op = op

Skip ==
    /\ todo' = Tail(todo)
    /\ UNCHANGED << pc, state, memory, autoApplied, autoAppliedTools,
                    autoAppliedStructuredOutputs, calls, nextId, failures >>

\* A visited set that never reports a resource as visited.
autoAppliedHasNothing(type, id) == FALSE

\* ctx.autoApplied.has(`${type}:${id}`)
autoAppliedHas(type, id) == << type, id >> \in autoApplied

----------------------------------------------------------------------------
(* The steps of main().                                                    *)

\* main() up to the orphan check: load the state, start with an empty
\* dependency context, fix the lists and with them the plan.
StartRun ==
    /\ UNCHANGED << clientVars, resolverVars, shellVars >>
    /\ pc # "running"
    /\ run < MaxRuns
    /\ run' = run + 1
    /\ pc' = "running"
    /\ state' = disk
    /\ start' = disk
    /\ autoApplied' = {}
    /\ autoAppliedTools' = << >>
    /\ autoAppliedStructuredOutputs' = << >>
    /\ memory' = LoadedResources(disk)
    /\ todo' = Plan
    /\ UNCHANGED << local, filter, force, disk, calls, nextId, failures >>

\* deleteOrphanedResources(raw lists, state, typesToDelete): find the
\* orphans; delete them only when deletions are enabled.
DeleteOrphanedResources ==
    /\ UNCHANGED << clientVars, resolverVars, shellVars >>
    /\ Running("deleteOrphans")
    /\ \E order \in Orders(IF force THEN Orphans(state, OrphanCheckLists, OrphanTypes)
                            ELSE {}) :
          todo' = [ i \in 1..Len(order) |-> Item("delete", order[i][1], order[i][2]) ]
                  \o Tail(todo)
    /\ UNCHANGED << local, memory, filter, force, disk, state, start, run, pc,
                    autoApplied, autoAppliedTools, autoAppliedStructuredOutputs,
                    calls, nextId, failures >>

\* One orphan: DELETE it, then drop its store entry.
DeleteOrphan ==
    /\ UNCHANGED << clientVars, resolverVars, shellVars >>
    /\ Running("delete")
    /\ LET h == Head(todo)
           req == [ method |-> "DELETE", uuid |-> state[h.type][h.id], body |-> NoBody ]
       IN  \E ok \in BOOLEAN :
             /\ Exchange("delete", h.type, h.id, req, ok)
             /\ IF vapiDelete(ok)
                THEN /\ state' = Remove(state, h.type, h.id)
                     /\ todo' = Tail(todo)
                     /\ pc' = pc
                ELSE /\ Abort
                     /\ state' = state
    /\ UNCHANGED << local, memory, filter, force, disk, start, run, autoApplied,
                    autoAppliedTools, autoAppliedStructuredOutputs >>

\* One iteration of the loop of a type pass. The assistants pass leaves out
\* what auto-dependency resolution has applied already.
ApplyResource ==
    /\ UNCHANGED << clientVars, resolverVars, shellVars >>
    /\ Running("apply")
    /\ LET h == Head(todo)
           req == ApplyFunction(h.type, Find(Scoped(h.type), h.id), state)
       IN  IF h.type = "assistants" /\ << "assistants", h.id >> \in autoApplied
           THEN Skip
           ELSE /\ \E ok \in BOOLEAN :
                     /\ Exchange("apply", h.type, h.id, req, ok)
                     /\ memory' = [ memory EXCEPT
                                     ![h.type] = ResourcesAfterUse(@, h.id, state) ]
                     /\ IF vapiRequest(ok)
                        THEN /\ state' = Put(state, h.type, h.id, Returned(req))
                             /\ todo' = Tail(todo)
                             /\ pc' = pc
                        ELSE /\ Abort
                             /\ state' = state
                /\ UNCHANGED << autoApplied, autoAppliedTools,
                                autoAppliedStructuredOutputs >>
    /\ UNCHANGED << local, filter, force, disk, start, run >>

ensureToolExists ==
    /\ UNCHANGED << clientVars, resolverVars, shellVars >>
    /\ Running("ensureTool")
    /\ LET toolId == Head(todo).id
           allTools == AllResources("tools")
       IN  IF \/ IsUUID(toolId)
              \/ autoAppliedHas("tools", toolId)
              \/ ~Found(allTools, toolId)
           THEN Skip
           ELSE LET req == applyTool(Find(allTools, toolId), state)
                IN  \E ok \in BOOLEAN :
                      /\ Exchange("auto", "tools", toolId, req, ok)
                      /\ memory' = [ memory EXCEPT
                                      !["tools"] = ResourcesAfterUse(@, toolId, state) ]
                      /\ IF vapiRequest(ok)
                         THEN /\ state' = Put(state, "tools", toolId, Returned(req))
                              /\ autoApplied' = autoApplied \cup { << "tools", toolId >> }
                              /\ autoAppliedTools' = Append(autoAppliedTools, toolId)
                              /\ todo' = Tail(todo)
                              /\ pc' = pc
                         ELSE /\ Abort
                              /\ UNCHANGED << state, autoApplied, autoAppliedTools >>
                      /\ UNCHANGED autoAppliedStructuredOutputs
    /\ UNCHANGED << local, filter, force, disk, start, run >>

ensureStructuredOutputExists ==
    /\ UNCHANGED << clientVars, resolverVars, shellVars >>
    /\ Running("ensureOutput")
    /\ LET outputId == Head(todo).id
           allStructuredOutputs == AllResources("structuredOutputs")
       IN  IF \/ IsUUID(outputId)
              \/ autoAppliedHas("structuredOutputs", outputId)
              \/ ~Found(allStructuredOutputs, outputId)
           THEN Skip
           ELSE LET req == applyStructuredOutput(Find(allStructuredOutputs, outputId), state)
                IN  \E ok \in BOOLEAN :
                      /\ Exchange("auto", "structuredOutputs", outputId, req, ok)
                      /\ memory' = [ memory EXCEPT
                                      !["structuredOutputs"] = ResourcesAfterUse(@, outputId, state) ]
                      /\ IF vapiRequest(ok)
                         THEN /\ state' = Put(state, "structuredOutputs", outputId,
                                              Returned(req))
                              /\ autoApplied' =
                                   autoApplied \cup { << "structuredOutputs", outputId >> }
                              /\ autoAppliedStructuredOutputs' =
                                   Append(autoAppliedStructuredOutputs, outputId)
                              /\ todo' = Tail(todo)
                              /\ pc' = pc
                         ELSE /\ Abort
                              /\ UNCHANGED << state, autoApplied,
                                              autoAppliedStructuredOutputs >>
                      /\ UNCHANGED autoAppliedTools
    /\ UNCHANGED << local, filter, force, disk, start, run >>

\* ensureAssistantExists up to the apply: the guard, then
\* ensureAssistantDepsExist, which queues the assistant's own dependencies.
ensureAssistantExists ==
    /\ UNCHANGED << clientVars, resolverVars, shellVars >>
    /\ Running("ensureAssistant")
    /\ LET assistantId == Head(todo).id
           allAssistants == AllResources("assistants")
           deps == IF IsUUID(assistantId) \/ ~Found(allAssistants, assistantId)
                   THEN << >>
                   ELSE ToolAndOutputItems(Find(allAssistants, assistantId).data)
       IN  IF IsUUID(assistantId) \/ autoAppliedHas("assistants", assistantId)
           THEN todo' = Tail(todo)
           ELSE todo' = deps \o << Item("autoAssistant", "assistants", assistantId) >>
                        \o Tail(todo)
    /\ UNCHANGED << local, memory, filter, force, disk, state, start, run, pc,
                    autoApplied, autoAppliedTools, autoAppliedStructuredOutputs,
                    calls, nextId, failures >>

\* The rest of ensureAssistantExists: apply the assistant if it is a local
\* resource.
ensureAssistantExistsApply ==
    /\ UNCHANGED << clientVars, resolverVars, shellVars >>
    /\ Running("autoAssistant")
    /\ LET assistantId == Head(todo).id
           allAssistants == AllResources("assistants")
       IN  IF ~Found(allAssistants, assistantId)
           THEN Skip
           ELSE LET req == applyAssistant(Find(allAssistants, assistantId), state)
                IN  \E ok \in BOOLEAN :
                      /\ Exchange("auto", "assistants", assistantId, req, ok)
                      /\ memory' = [ memory EXCEPT
                                      !["assistants"] = ResourcesAfterUse(@, assistantId, state) ]
                      /\ IF vapiRequest(ok)
                         THEN /\ state' = Put(state, "assistants", assistantId,
                                              Returned(req))
                              /\ autoApplied' =
                                   autoApplied \cup { << "assistants", assistantId >> }
                              /\ todo' = Tail(todo)
                              /\ pc' = pc
                         ELSE /\ Abort
                              /\ UNCHANGED << state, autoApplied >>
                      /\ UNCHANGED << autoAppliedTools, autoAppliedStructuredOutputs >>
    /\ UNCHANGED << local, filter, force, disk, start, run >>

\* A second pass that links no tool.
LinkNoTools ==
    /\ UNCHANGED << clientVars, resolverVars, shellVars >>
    /\ Running("linkTools")
    /\ todo' = Tail(todo)
    /\ UNCHANGED << local, memory, filter, force, disk, state, start, run, pc,
                    autoApplied, autoAppliedTools, autoAppliedStructuredOutputs,
                    calls, nextId, failures >>

\* Second pass, tools: allAppliedTools = [...tools, ...autoAppliedTools].
LinkTools ==
    /\ UNCHANGED << clientVars, resolverVars, shellVars >>
    /\ Running("linkTools")
    /\ LET tools == Scoped("tools")
           allAppliedTools ==
               [ i \in 1..Len(tools) |-> tools[i].resourceId ] \o autoAppliedTools
       IN  todo' = [ i \in 1..Len(allAppliedTools) |->
                       Item("linkTool", "tools", allAppliedTools[i]) ]
                   \o Tail(todo)
    /\ UNCHANGED << local, memory, filter, force, disk, state, start, run, pc,
                    autoApplied, autoAppliedTools, autoAppliedStructuredOutputs,
                    calls, nextId, failures >>

\* An updateToolAssistantRefs that patches every tool with a store entry.
updateToolAssistantRefsUnguarded ==
    /\ UNCHANGED << clientVars, resolverVars, shellVars >>
    /\ Running("linkTool")
    /\ LET resourceId == Head(todo).id
           rawData == Find(AllResources("tools"), resourceId).data
       IN  IF ~Has(state, "tools", resourceId)
           THEN Skip
           ELSE LET resolved == resolveReferences(rawData, state)
                    req == [ method |-> "PATCH", uuid |-> state["tools"][resourceId],
                             body |-> [ destinations |->
                                          IF "destinations" \in DOMAIN resolved
                                          THEN resolved.destinations ELSE << >> ] ]
                IN  \E ok \in BOOLEAN :
                      /\ Exchange("link", "tools", resourceId, req, ok)
                      /\ memory' = [ memory EXCEPT
                                      !["tools"] = ResourcesAfterUse(@, resourceId, state) ]
                      /\ IF vapiRequest(ok) THEN todo' = Tail(todo) /\ pc' = pc ELSE Abort
                      /\ UNCHANGED << state, autoApplied, autoAppliedTools,
                                      autoAppliedStructuredOutputs >>
    /\ UNCHANGED << local, filter, force, disk, start, run >>

\* One iteration of updateToolAssistantRefs.
updateToolAssistantRefs ==
    /\ UNCHANGED << clientVars, resolverVars, shellVars >>
    /\ Running("linkTool")
    /\ LET resourceId == Head(todo).id
           rawData == Find(AllResources("tools"), resourceId).data
           hasAssistantRefs ==
               \E i \in 1..Len(rawData.destinations) :
                  "assistantId" \in DOMAIN rawData.destinations[i]
       IN  IF \/ "destinations" \notin DOMAIN rawData
              \/ ~hasAssistantRefs
              \/ ~Has(state, "tools", resourceId)
           THEN Skip
           ELSE LET resolved == resolveReferences(rawData, state)
                    req == [ method |-> "PATCH", uuid |-> state["tools"][resourceId],
                             body |-> [ destinations |-> resolved.destinations ] ]
                IN  \E ok \in BOOLEAN :
                      /\ Exchange("link", "tools", resourceId, req, ok)
                      /\ memory' = [ memory EXCEPT
                                      !["tools"] = ResourcesAfterUse(@, resourceId, state) ]
                      /\ IF vapiRequest(ok) THEN todo' = Tail(todo) /\ pc' = pc ELSE Abort
                      /\ UNCHANGED << state, autoApplied, autoAppliedTools,
                                      autoAppliedStructuredOutputs >>
    /\ UNCHANGED << local, filter, force, disk, start, run >>

\* Second pass, structured outputs:
\* allAppliedOutputs = [...structuredOutputs, ...autoAppliedStructuredOutputs].
LinkOutputs ==
    /\ UNCHANGED << clientVars, resolverVars, shellVars >>
    /\ Running("linkOutputs")
    /\ LET structuredOutputs == Scoped("structuredOutputs")
           allAppliedOutputs ==
               [ i \in 1..Len(structuredOutputs) |-> structuredOutputs[i].resourceId ]
               \o autoAppliedStructuredOutputs
       IN  todo' = [ i \in 1..Len(allAppliedOutputs) |->
                       Item("linkOutput", "structuredOutputs", allAppliedOutputs[i]) ]
                   \o Tail(todo)
    /\ UNCHANGED << local, memory, filter, force, disk, state, start, run, pc,
                    autoApplied, autoAppliedTools, autoAppliedStructuredOutputs,
                    calls, nextId, failures >>

\* One iteration of updateStructuredOutputAssistantRefs.
updateStructuredOutputAssistantRefs ==
    /\ UNCHANGED << clientVars, resolverVars, shellVars >>
    /\ Running("linkOutput")
    /\ LET resourceId == Head(todo).id
           rawData == Find(AllResources("structuredOutputs"), resourceId).data
           assistantIds == resolveAssistantIds(rawData["assistant_ids"], state)
       IN  IF \/ "assistant_ids" \notin DOMAIN rawData
              \/ Len(rawData["assistant_ids"]) = 0
              \/ ~Has(state, "structuredOutputs", resourceId)
              \/ Len(assistantIds) = 0
           THEN Skip
           ELSE LET req == [ method |-> "PATCH",
                             uuid |-> state["structuredOutputs"][resourceId],
                             body |-> [ assistantIds |-> assistantIds ] ]
                IN  \E ok \in BOOLEAN :
                      /\ Exchange("link", "structuredOutputs", resourceId, req, ok)
                      /\ memory' = [ memory EXCEPT
                                      !["structuredOutputs"] = ResourcesAfterUse(@, resourceId, state) ]
                      /\ IF vapiRequest(ok) THEN todo' = Tail(todo) /\ pc' = pc ELSE Abort
                      /\ UNCHANGED << state, autoApplied, autoAppliedTools,
                                      autoAppliedStructuredOutputs >>
    /\ UNCHANGED << local, filter, force, disk, start, run >>

\* await saveState(state), the summary, exit 0.
SaveState ==
    /\ UNCHANGED << clientVars, resolverVars, shellVars >>
    /\ Running("save")
    /\ disk' = state
    /\ pc' = "done"
    /\ todo' = << >>
    /\ UNCHANGED << local, memory, filter, force, state, start, run, autoApplied,
                    autoAppliedTools, autoAppliedStructuredOutputs, calls,
                    nextId, failures >>

----------------------------------------------------------------------------
(* The HTTP client: vapiRequest and vapiDelete run the same loop, one with *)
(* POST or PATCH and a body, the other with DELETE.                        *)

\* A client with one retry more.
SixRetries == 5 + 1

MAX_RETRIES == 5
INITIAL_DELAY_MS == 2000
REQUEST_DELAY_MS == 700

\* Client calls explored, and requests sent before which a further call may
\* still begin.
MaxCalls == 2
MaxSentBefore == 2

\* The calls the engine makes of the client.
ClientCalls ==
    { [ method |-> "POST", endpoint |-> "/tool" ],
      [ method |-> "PATCH", endpoint |-> "/tool/uuid-1" ],
      [ method |-> "DELETE", endpoint |-> "/tool/uuid-1" ] }

NoRequest == [ method |-> "", endpoint |-> "" ]

\* What fetch settles with: a response with a status, or a rejection
\* (network down, timeout).
Responses ==
    { [ status |-> st ] : st \in { 200, 404, 429, 500 } }
    \cup { [ error |-> "fetch failed" ] }

\* Time the caller spends between two client calls, time a fetch takes.
Gaps == { 0, 1000 }
Latencies == { 100 }

\* response.ok
Ok(status) == status >= 200 /\ status <= 299

\* new VapiApiError(method, endpoint, statusCode, ...)
VapiApiError(method, endpoint, statusCode) ==
    [ name |-> "VapiApiError", method |-> method, endpoint |-> endpoint,
      statusCode |-> statusCode ]

\* What fetch throws when it rejects.
FetchError == [ name |-> "TypeError" ]

Returns == [ name |-> "return" ]
NoOutcome == [ name |-> "none" ]

\* A throttle that lets every request through at once.
throttleWithoutSleep(t, last) == t

\* throttle(): the clock once throttle() is through, which it records in
\* lastRequestTime; sleep(ms) takes ms.
throttle(t, last) ==
    IF t - last < REQUEST_DELAY_MS
    THEN t + (REQUEST_DELAY_MS - (t - last))
    ELSE t

\* A backoff that waits the same time before every retry.
ConstantDelay(n) == INITIAL_DELAY_MS

\* INITIAL_DELAY_MS * Math.pow(2, attempt)
Delay(n) == INITIAL_DELAY_MS * 2^n

\* A client that retries on every error response.
ShouldRetryOnAnyError(status, n) == n < MAX_RETRIES

\* response.status === 429 && attempt < MAX_RETRIES
ShouldRetry(status, n) == status = 429 /\ n < MAX_RETRIES

\* The caller awaits vapiRequest(method, endpoint, body) or
\* vapiDelete(endpoint). A call that threw ended the process.
Call ==
    /\ at \in { "idle", "returned" }
    /\ ncalls < MaxCalls
    /\ Len(sent) <= MaxSentBefore
    /\ \E c \in ClientCalls, gap \in Gaps :
          /\ request' = c
          /\ now' = now + gap
    /\ ncalls' = ncalls + 1
    /\ attempt' = 0
    /\ delays' = << >>
    /\ outcome' = NoOutcome
    /\ at' = "loop"
    /\ UNCHANGED << lastRequestTime, sent >>
    /\ UNCHANGED << engineVars, resolverVars, shellVars >>

\* The head of the for loop: the next iteration starts with throttle(); past
\* the last iteration the call throws "max retries exceeded".
Attempt ==
    /\ at = "loop"
    /\ IF attempt <= MAX_RETRIES
       THEN /\ now' = throttle(now, lastRequestTime)
            /\ lastRequestTime' = now'
            /\ at' = "fetch"
            /\ UNCHANGED outcome
       ELSE /\ at' = "thrown"
            /\ outcome' = VapiApiError(request.method, request.endpoint, 429)
            /\ UNCHANGED << now, lastRequestTime >>
    /\ UNCHANGED << attempt, request, sent, delays, ncalls >>
    /\ UNCHANGED << engineVars, resolverVars, shellVars >>

\* The rest of the iteration: the request is sent and answered.
Fetch ==
    /\ at = "fetch"
    /\ \E response \in Responses, latency \in Latencies :
          /\ sent' = Append(sent, [ call |-> ncalls, method |-> request.method,
                                    endpoint |-> request.endpoint,
                                    time |-> lastRequestTime,
                                    response |-> response ])
          /\ IF "error" \in DOMAIN response
             THEN /\ at' = "thrown"
                  /\ outcome' = FetchError
                  /\ now' = now + latency
                  /\ UNCHANGED << attempt, delays >>
             ELSE IF Ok(response.status)
             THEN /\ at' = "returned"
                  /\ outcome' = Returns
                  /\ now' = now + latency
                  /\ UNCHANGED << attempt, delays >>
             ELSE IF ShouldRetry(response.status, attempt)
             THEN /\ delays' = Append(delays, Delay(attempt))
                  /\ now' = now + latency + Delay(attempt)
                  /\ attempt' = attempt + 1
                  /\ at' = "loop"
                  /\ UNCHANGED outcome
             ELSE /\ at' = "thrown"
                  /\ outcome' = VapiApiError(request.method, request.endpoint,
                                             response.status)
                  /\ now' = now + latency
                  /\ UNCHANGED << attempt, delays >>
    /\ UNCHANGED << lastRequestTime, request, ncalls >>
    /\ UNCHANGED << engineVars, resolverVars, shellVars >>

\* The client before its first call. Date.now() counts ms since 1970, so the
\* first request never waits.
ClientIdle ==
    /\ now = 1000
    /\ lastRequestTime = 0
    /\ attempt = 0
    /\ at = "idle"
    /\ request = NoRequest
    /\ sent = << >>
    /\ delays = << >>
    /\ outcome = NoOutcome
    /\ ncalls = 0

----------------------------------------------------------------------------
(* The reference resolver, applied to a document and to what it returned.  *)

\* How often the resolver is applied in a row.
MaxResolutions == 2

NoDocument == [ f \in {} |-> "" ]

\* resolveReferences(data, state), called on doc and then on its own result.
Resolve ==
    /\ UNCHANGED << engineVars, clientVars, shellVars >>
    /\ doc # NoDocument
    /\ Len(resolutions) < MaxResolutions
    /\ resolutions' =
          Append(resolutions,
                 resolveReferences(IF resolutions = << >> THEN doc
                                   ELSE resolutions[Len(resolutions)], state))
    /\ doc' = doc

ResolverIdle ==
    /\ doc = NoDocument
    /\ resolutions = << >>

----------------------------------------------------------------------------
(* The sync commands: pull, then push.  The older command (apply, with     *)
(* --force) runs the two steps; the newer one (apply.ts) wraps them in a   *)
(* git stash and commits what the pull brought.                            *)

\* How many arguments follow the environment on the command line.
MaxArgs == 3

\* The words of a command line: the deletion flag and two resource types.
Words == { "--force", "tools", "assistants" }

RECURSIVE SeqsUpTo(_, _)
SeqsUpTo(S, n) ==
    IF n = 0 THEN { << >> }
    ELSE LET shorter == SeqsUpTo(S, n - 1)
         IN  shorter \cup { Append(q, w) : q \in { x \in shorter : Len(x) = n - 1 },
                                           w \in S }

CommandLines == SeqsUpTo(Words, MaxArgs)

\* The environments a user may name: one that both commands accept and one
\* that neither does.
Environments == { "dev", "qa" }

\* apply.ts
VALID_ENVIRONMENTS == { "dev", "staging", "prod" }

\* the older apply command
ValidEnvironmentsOfApply == { "dev", "stg", "prod" }

\* The exit status of a child process.
Exits == { 0, 1 }

Command(cmd, args, status, entry) ==
    [ cmd |-> cmd, args |-> args, status |-> status, entry |-> entry ]

\* A pull that is handed the arguments as they came.
pullArgsUnfiltered(allArgs) == allArgs

\* allArgs.filter(a => a !== "--force")
pullArgs(allArgs) == SelectSeq(allArgs, LAMBDA a : a # "--force")

\* allArgs.join(" ")
pushArgs(allArgs) == allArgs

\* The older command, up to the pull: an unknown environment prints the
\* usage and exits; otherwise pull.ts runs with the filtered arguments.
ApplyPull ==
    /\ UNCHANGED << engineVars, clientVars, resolverVars >>
    /\ step = "start"
    /\ IF env \notin ValidEnvironmentsOfApply
       THEN /\ step' = "exit1"
            /\ commands' = commands
       ELSE \E pullExit \in Exits :
               /\ commands' = Append(commands,
                                     Command("pull", pullArgs(argv), pullExit, ""))
               /\ step' = IF pullExit # 0 THEN "exit1" ELSE "pulled"
    /\ UNCHANGED << env, argv, tree, stash, hadLocalChanges >>

\* The older command, the push: push.ts runs with every argument.
ApplyPush ==
    /\ UNCHANGED << engineVars, clientVars, resolverVars >>
    /\ step = "pulled"
    /\ \E pushExit \in Exits :
          /\ commands' = Append(commands, Command("push", pushArgs(argv), pushExit, ""))
          /\ step' = IF pushExit # 0 THEN "exit1" ELSE "exit0"
    /\ UNCHANGED << env, argv, tree, stash, hadLocalChanges >>

\* git status --porcelain lists tracked changes and untracked files alike.
hasLocalChanges == tree # "clean"

\* What git stash push does to the working tree: it takes the tracked
\* changes and leaves untracked files where they are.
AfterStashPush(t) ==
    CASE t = "tracked" -> "clean"
      [] t = "both"    -> "untracked"
      [] OTHER         -> t

\* The working tree once files were written into it (by the pull, by the
\* push that saves the state file, by a stash that is reapplied).
Written(t) ==
    CASE t = "clean"     -> "tracked"
      [] t = "untracked" -> "both"
      [] OTHER           -> t

\* run("git stash pop"): with an empty stash git fails; otherwise the newest
\* entry is reapplied and dropped, or it conflicts and stays.
GitStashPop(next, failed) ==
    IF stash = << >>
    THEN /\ commands' = Append(commands, Command("stash pop", << >>, 1, ""))
         /\ step' = failed
         /\ UNCHANGED << tree, stash >>
    ELSE \E status \in Exits :
            /\ commands' = Append(commands,
                                  Command("stash pop", << >>, status, Head(stash)))
            /\ tree' = Written(tree)
            /\ stash' = IF status = 0 THEN Tail(stash) ELSE stash
            /\ step' = IF status = 0 THEN next ELSE failed

\* main() of apply.ts up to step 1: the environment, the repository, and
\* whether there are local changes.
SyncCheck ==
    /\ UNCHANGED << engineVars, clientVars, resolverVars >>
    /\ step = "start"
    /\ IF env \notin VALID_ENVIRONMENTS
       THEN step' = "exit1" /\ hadLocalChanges' = hadLocalChanges
       ELSE \E isGitRepo \in BOOLEAN :
               IF ~isGitRepo
               THEN step' = "exit1" /\ hadLocalChanges' = hadLocalChanges
               ELSE step' = "checked" /\ hadLocalChanges' = hasLocalChanges
    /\ UNCHANGED << env, argv, commands, tree, stash >>

\* Step 1: stash the local changes. With nothing but untracked files in
\* the tree git saves nothing and exits with status 0.
StashPush ==
    /\ UNCHANGED << engineVars, clientVars, resolverVars >>
    /\ step = "checked"
    /\ IF ~hadLocalChanges
       THEN step' = "stashed" /\ UNCHANGED << commands, tree, stash >>
       ELSE \E status \in Exits :
               IF status # 0
               THEN /\ commands' = Append(commands,
                                          Command("stash push", << >>, status, ""))
                    /\ step' = "exit1"
                    /\ UNCHANGED << tree, stash >>
               ELSE /\ commands' =
                          Append(commands,
                                 Command("stash push", << >>, 0,
                                         IF tree = "untracked" THEN "" ELSE "sync"))
                    /\ stash' = IF tree = "untracked" THEN stash
                                ELSE << "sync" >> \o stash
                    /\ tree' = AfterStashPush(tree)
                    /\ step' = "stashed"
    /\ UNCHANGED << env, argv, hadLocalChanges >>

\* Step 2: pull the platform state; pull.ts is handed the environment only.
SyncPull ==
    /\ UNCHANGED << engineVars, clientVars, resolverVars >>
    /\ step = "stashed"
    /\ \E pullExitCode \in Exits :
          /\ commands' = Append(commands, Command("pull", << >>, pullExitCode, ""))
          /\ step' = IF pullExitCode # 0 THEN "pullFailed" ELSE "pulled"
    /\ \E changed \in BOOLEAN : tree' = IF changed THEN Written(tree) ELSE tree
    /\ UNCHANGED << env, argv, stash, hadLocalChanges >>

\* The pull failed: restore the local changes from the stash, exit 1.
RestoreAfterFailedPull ==
    /\ UNCHANGED << engineVars, clientVars, resolverVars >>
    /\ step = "pullFailed"
    /\ IF hadLocalChanges
       THEN GitStashPop("exit1", "exit1")
       ELSE step' = "exit1" /\ UNCHANGED << commands, tree, stash >>
    /\ UNCHANGED << env, argv, hadLocalChanges >>

\* Step 3: commit what the pull brought: git add -A, git commit.
CommitPulled ==
    /\ UNCHANGED << engineVars, clientVars, resolverVars >>
    /\ step = "pulled"
    /\ IF ~hasLocalChanges
       THEN step' = "committed" /\ UNCHANGED << commands, tree >>
       ELSE \E status \in Exits :
               /\ commands' = Append(commands, Command("commit", << >>, status, ""))
               /\ tree' = IF status = 0 THEN "clean" ELSE tree
               /\ step' = IF status = 0 THEN "committed" ELSE "exit1"
    /\ UNCHANGED << env, argv, stash, hadLocalChanges >>

\* Step 4: reapply the local changes; a failing pop is taken for a merge
\* conflict and ends the command.
StashPop ==
    /\ UNCHANGED << engineVars, clientVars, resolverVars >>
    /\ step = "committed"
    /\ IF hadLocalChanges
       THEN GitStashPop("merged", "exit1")
       ELSE step' = "merged" /\ UNCHANGED << commands, tree, stash >>
    /\ UNCHANGED << env, argv, hadLocalChanges >>

\* Step 5: push.ts runs with the environment and the extra arguments.
SyncPush ==
    /\ UNCHANGED << engineVars, clientVars, resolverVars >>
    /\ step = "merged"
    /\ \E pushExitCode \in Exits :
          /\ commands' = Append(commands, Command("push", argv, pushExitCode, ""))
          /\ step' = IF pushExitCode # 0 THEN "exit1" ELSE "pushed"
    /\ \E changed \in BOOLEAN : tree' = IF changed THEN Written(tree) ELSE tree
    /\ UNCHANGED << env, argv, stash, hadLocalChanges >>

\* Step 6: commit the final state.
CommitFinal ==
    /\ UNCHANGED << engineVars, clientVars, resolverVars >>
    /\ step = "pushed"
    /\ IF ~hasLocalChanges
       THEN step' = "exit0" /\ UNCHANGED << commands, tree >>
       ELSE \E status \in Exits :
               /\ commands' = Append(commands, Command("commit", << >>, status, ""))
               /\ tree' = IF status = 0 THEN "clean" ELSE tree
               /\ step' = IF status = 0 THEN "exit0" ELSE "exit1"
    /\ UNCHANGED << env, argv, stash, hadLocalChanges >>

\* No sync command is running.
ShellIdle ==
    /\ env = ""
    /\ argv = << >>
    /\ step = "idle"
    /\ commands = << >>
    /\ tree = "clean"
    /\ stash = << >>
    /\ hadLocalChanges = FALSE

----------------------------------------------------------------------------
(* The repositories, stores and invocations a behaviour starts from.       *)

\* At most one catalog document is missing from the working tree: one that
\* others refer to, or the unreferenced tool.
AbsentChoices ==
    { {} } \cup { { k } : k \in { << "tools", "agent" >>, << "tools", "lookup" >>,
                                  << "structuredOutputs", "summary" >>,
                                  << "assistants", "my-agent" >> } }

\* At most one document is marked as a platform default.
DefaultChoices ==
    { {} } \cup { { k } : k \in { << "tools", "agent" >>,
                                  << "assistants", "my-agent" >> } }

\* The store of a fresh checkout, of one with a single resource pushed, and
\* of one with everything pushed.
StoredChoices ==
    { {}, Keys }
    \cup { { k } : k \in { << "tools", "agent" >>, << "tools", "lookup" >>,
                           << "structuredOutputs", "summary" >>,
                           << "assistants", "my-agent" >> } }

\* A full apply, an apply of one resource type, an apply of one file.
\* Deletions are enabled (Init) where the store holds an orphan: without
\* one the flag changes nothing.
FilterChoices ==
    { [ resourceTypes |-> << >>, filePaths |-> << >> ] }
    \cup { [ resourceTypes |-> << t >>, filePaths |-> << >> ] : t \in TypeSet }
    \cup { [ resourceTypes |-> << >>, filePaths |-> << RelativePath(k[1], k[2]) >> ] :
             k \in { << "tools", "agent" >>, << "assistants", "my-agent" >>,
                     << "squads", "team" >>, << "simulations", "test1" >> } }

\* loadResources(type) for a working tree.
Loaded(type, absent, defaults) ==
    LET present == SelectSeq(Catalog,
                             LAMBDA d : d.type = type /\ Key(d) \notin absent)
    IN  [ i \in 1..Len(present) |->
            [ resourceId |-> present[i].resourceId,
              filePath |-> FilePath(type, present[i].resourceId),
              data |-> IF Key(present[i]) \in defaults
                       THEN [ _platformDefault |-> TRUE ] @@ present[i].data
                       ELSE present[i].data ] ]

\* The state file that holds the given resources.
StateFile(stored) ==
    [ t \in StoreKeys |->
        IF t = "credentials"
        THEN [ n \in { "server-credential" } |-> UUID(0) ]
        ELSE [ id \in { k[2] : k \in { s \in stored : s[1] = t } } |->
                 SeedId(<< t, id >>) ] ]

Init ==
    /\ \E absent \in AbsentChoices, defaults \in DefaultChoices :
          local = [ t \in TypeSet |-> Loaded(t, absent, defaults) ]
    /\ filter \in FilterChoices
    /\ \E stored \in StoredChoices : disk = StateFile(stored)
    /\ memory = LoadedResources(disk)
    /\ force \in BOOLEAN
    /\ force => Orphans(disk, local, TypeSet) # {}
    /\ state = disk
    /\ start = disk
    /\ run = 0
    /\ pc = "idle"
    /\ todo = << >>
    /\ autoApplied = {}
    /\ autoAppliedTools = << >>
    /\ autoAppliedStructuredOutputs = << >>
    /\ calls = << >>
    /\ nextId = Len(Catalog) + 1
    /\ failures = 0
    /\ ClientIdle
    /\ ResolverIdle
    /\ ShellIdle

Next ==
    \/ StartRun
    \/ DeleteOrphanedResources
    \/ DeleteOrphan
    \/ ApplyResource
    \/ ensureToolExists
    \/ ensureStructuredOutputExists
    \/ ensureAssistantExists
    \/ ensureAssistantExistsApply
    \/ LinkTools
    \/ updateToolAssistantRefs
    \/ LinkOutputs
    \/ updateStructuredOutputAssistantRefs
    \/ SaveState

Spec == Init /\ [][Next]_vars

\* The client on its own: the engine stands still, with nothing loaded.
ClientInit ==
    /\ local = [ t \in TypeSet |-> << >> ]
    /\ memory = [ t \in TypeSet |-> << >> ]
    /\ filter = [ resourceTypes |-> << >>, filePaths |-> << >> ]
    /\ force = FALSE
    /\ disk = StateFile({})
    /\ state = disk
    /\ start = disk
    /\ run = 0
    /\ pc = "idle"
    /\ todo = << >>
    /\ autoApplied = {}
    /\ autoAppliedTools = << >>
    /\ autoAppliedStructuredOutputs = << >>
    /\ calls = << >>
    /\ nextId = Len(Catalog) + 1
    /\ failures = 0
    /\ ClientIdle
    /\ ResolverIdle
    /\ ShellIdle

ClientNext == Call \/ Attempt \/ Fetch

\* Every awaited sleep and fetch settles, so a step that can be taken is
\* taken.
ClientSpec ==
    ClientInit /\ [][ClientNext]_vars /\ WF_vars(Attempt) /\ WF_vars(Fetch)

\* The resolver on its own: a document and a store, nothing running.
ResolverInit ==
    /\ local = [ t \in TypeSet |-> << >> ]
    /\ memory = [ t \in TypeSet |-> << >> ]
    /\ filter = [ resourceTypes |-> << >>, filePaths |-> << >> ]
    /\ force = FALSE
    /\ \E stored \in StoredChoices : disk = StateFile(stored)
    /\ state = disk
    /\ start = disk
    /\ run = 0
    /\ pc = "idle"
    /\ todo = << >>
    /\ autoApplied = {}
    /\ autoAppliedTools = << >>
    /\ autoAppliedStructuredOutputs = << >>
    /\ calls = << >>
    /\ nextId = Len(Catalog) + 1
    /\ failures = 0
    /\ ClientIdle
    /\ ShellIdle
    /\ doc \in Documents
    /\ resolutions = << >>

ResolverNext == Resolve

ResolverSpec == ResolverInit /\ [][ResolverNext]_vars

\* The apply engine before anything is loaded.
NothingLoaded ==
    /\ local = [ t \in TypeSet |-> << >> ]
    /\ memory = [ t \in TypeSet |-> << >> ]
    /\ filter = [ resourceTypes |-> << >>, filePaths |-> << >> ]
    /\ force = FALSE
    /\ disk = StateFile({})
    /\ state = disk
    /\ start = disk
    /\ run = 0
    /\ pc = "idle"
    /\ todo = << >>
    /\ autoApplied = {}
    /\ autoAppliedTools = << >>
    /\ autoAppliedStructuredOutputs = << >>
    /\ calls = << >>
    /\ nextId = Len(Catalog) + 1
    /\ failures = 0

\* The older apply command, started with an environment and arguments.
ApplyInit ==
    /\ NothingLoaded
    /\ ClientIdle
    /\ ResolverIdle
    /\ env \in Environments
    /\ argv \in CommandLines
    /\ step = "start"
    /\ commands = << >>
    /\ tree = "clean"
    /\ stash = << >>
    /\ hadLocalChanges = FALSE

ApplyNext == ApplyPull \/ ApplyPush

ApplySpec == ApplyInit /\ [][ApplyNext]_vars

\* The stashes a user may have left in the repository.
StashChoices == { << >>, << "older" >> }

\* apply.ts, started in a repository in any state of its working tree.
SyncInit ==
    /\ NothingLoaded
    /\ ClientIdle
    /\ ResolverIdle
    /\ env \in Environments
    /\ argv \in { << >>, << "--force" >> }
    /\ step = "start"
    /\ commands = << >>
    /\ tree \in { "clean", "tracked", "untracked", "both" }
    /\ stash \in StashChoices
    /\ hadLocalChanges = FALSE

SyncNext ==
    \/ SyncCheck
    \/ StashPush
    \/ SyncPull
    \/ RestoreAfterFailedPull
    \/ CommitPulled
    \/ StashPop
    \/ SyncPush
    \/ CommitFinal

SyncSpec == SyncInit /\ [][SyncNext]_vars

----------------------------------------------------------------------------
(* Vocabulary of the properties.                                           *)

CallIndexes == 1..Len(calls)

\* The resource a call is about.
Target(c) == << c.type, c.id >>

\* A first-pass call: the create or update of a resource, in its type pass
\* or as an auto-applied dependency.
FirstPass(c) == c.kind \in { "apply", "auto" }

\* The calls of run r with the given method on resource k.
CallsOn(r, method, k) ==
    { i \in CallIndexes :
        calls[i].run = r /\ calls[i].method = method /\ Target(calls[i]) = k }

\* The create calls of the current run, in order.
Posts == SelectSeq(calls, LAMBDA c : c.run = run /\ c.method = "POST")

\* The orphan check of the current run is over: nothing of it is left to do.
DeletionOver ==
    /\ run >= 1
    /\ \A j \in 1..Len(todo) : todo[j].op \notin { "deleteOrphans", "delete" }

\* A DELETE of the current run failed.
DeletionFailed ==
    \E i \in CallIndexes :
       calls[i].run = run /\ calls[i].method = "DELETE" /\ ~calls[i].ok

\* A step that issues an HTTP call, and the call.
Issued == Len(calls') = Len(calls) + 1
NewCall == calls'[Len(calls')]

\* The resources extractReferencedIds reports for the data, as keys.
ReferencedKeys(data) ==
    LET refs == extractReferencedIds(data)
    IN  { << "tools", id >> : id \in Range(refs.tools) }
        \cup { << "structuredOutputs", id >> : id \in Range(refs.structuredOutputs) }
        \cup { << "assistants", id >> : id \in Range(refs.assistants) }

\* Every resource a payload names outside the two reference cycles: the
\* above and the references of the simulation types.
NamedKeys(data) ==
    ReferencedKeys(data)
    \cup (IF "personalityId" \in DOMAIN data
          THEN { << "personalities", data.personalityId >> } ELSE {})
    \cup (IF "scenarioId" \in DOMAIN data
          THEN { << "scenarios", data.scenarioId >> } ELSE {})
    \cup (IF "simulationIds" \in DOMAIN data
          THEN { << "simulations", id >> : id \in Range(data.simulationIds) } ELSE {})
    \cup (IF "evaluations" \in DOMAIN data
          THEN { << "structuredOutputs", data.evaluations[i].structuredOutputId >> :
                   i \in 1..Len(data.evaluations) }
          ELSE {})

\* A key of a loaded resource that is no platform default.
LocallyDefined(k) == Found(AllResources(k[1]), k[2])

DataOf(k) == Find(AllResources(k[1]), k[2]).data

----------------------------------------------------------------------------
(* C1. For every resource R without a store entry, two runs in succession  *)
(* with no local change issue, over both runs, exactly one create (POST)   *)
(* and exactly one update (PATCH) for R.  Link calls are not counted.      *)
C1_OneCreateOneUpdateOverTwoRuns ==
    (run = 2 /\ pc = "done" /\ failures = 0) =>
        \A k \in Keys :
            CallsOn(1, "POST", k) # {} =>
                /\ Cardinality(CallsOn(1, "POST", k) \cup CallsOn(2, "POST", k)) = 1
                /\ Cardinality({ i \in CallsOn(1, "PATCH", k) \cup CallsOn(2, "PATCH", k) :
                                   FirstPass(calls[i]) }) = 1

(* C2. When a run aborts on a failed call, the store is still persisted:   *)
(* the state file holds every entry the in-memory store holds.             *)
C2_StorePersistedOnAbort ==
    pc = "failed" =>
        \A t \in TypeSet : \A id \in DOMAIN state[t] :
            Has(disk, t, id) /\ disk[t][id] = state[t][id]

(* C3. Within one run every resource is the target of at most one          *)
(* first-pass create-or-update call, direct or auto-applied.               *)
C3_AtMostOneFirstPassCall ==
    \A r \in 1..run : \A k \in Keys :
        Cardinality({ i \in CallIndexes :
                        /\ calls[i].run = r
                        /\ FirstPass(calls[i])
                        /\ Target(calls[i]) = k }) <= 1

(* C4. No DELETE is ever issued for a resource that has a loaded local     *)
(* document of its type, platform defaults included.                       *)
C4_NoDeleteOfLoadedResource ==
    \A i \in CallIndexes :
        calls[i].method = "DELETE" => ~Found(local[calls[i].type], calls[i].id)

\* A DELETE went through in a repository that holds a platform default
\* with a store entry.
C4_Witness ==
    /\ \E i \in CallIndexes :
          calls[i].run = run /\ calls[i].method = "DELETE" /\ calls[i].ok
    /\ \E t \in TypeSet : \E j \in 1..Len(local[t]) :
          isDefault(local[t][j]) /\ Has(start, t, local[t][j].resourceId)

(* C5. With deletions disabled no DELETE is issued, and every orphan of    *)
(* the store stays in the store, in memory and on disk, with its id.       *)
C5_DryRunDeletesNothing ==
    ~force =>
        /\ \A i \in CallIndexes : calls[i].method # "DELETE"
        /\ \A k \in Orphans(start, local, TypeSet) :
              /\ Has(state, k[1], k[2]) /\ state[k[1]][k[2]] = start[k[1]][k[2]]
              /\ Has(disk, k[1], k[2]) /\ disk[k[1]][k[2]] = start[k[1]][k[2]]

\* A dry run that found an orphan in scope has written the store back.
C5_Witness ==
    /\ ~force
    /\ pc = "done"
    /\ calls # << >>
    /\ Orphans(start, local, OrphanTypes) # {}

(* C6. With deletions enabled, once the orphan check is over every orphan  *)
(* in scope has had exactly one DELETE, for its remote id, and has left    *)
(* the store; and no entry leaves the store without a DELETE of it that    *)
(* succeeded.                                                              *)
C6_ForcedDeletion ==
    /\ (force /\ DeletionOver /\ ~DeletionFailed) =>
          \A k \in Orphans(start, local, OrphanTypes) :
              /\ Cardinality(CallsOn(run, "DELETE", k)) = 1
              /\ \A i \in CallsOn(run, "DELETE", k) :
                    calls[i].ok /\ calls[i].uuid = start[k[1]][k[2]]
              /\ ~Has(state, k[1], k[2])
    /\ \A t \in TypeSet : \A id \in DOMAIN start[t] \ DOMAIN state[t] :
          \E i \in CallsOn(run, "DELETE", << t, id >>) : calls[i].ok

\* The orphan check of a forced run is over and there was an orphan.
C6_Witness ==
    /\ force
    /\ pc = "running"
    /\ DeletionOver
    /\ ~DeletionFailed
    /\ Orphans(start, local, OrphanTypes) # {}

\* The run is scoped to the one assistant file.
ScopedToAssistantFile ==
    /\ filter.resourceTypes = << >>
    /\ filter.filePaths = << RelativePath("assistants", "my-agent") >>

(* C7. A run scoped to a single assistant file never checks tools or       *)
(* structured outputs for orphans and never issues a DELETE against one.   *)
C7_AssistantFileSparesToolsAndOutputs ==
    ScopedToAssistantFile =>
        /\ run >= 1 => Range(typesToDelete) \cap { "tools", "structuredOutputs" } = {}
        /\ \A i \in CallIndexes :
              calls[i].method = "DELETE" =>
                  calls[i].type \notin { "tools", "structuredOutputs" }

(* C8. In a run restricted by a resource-type filter the types checked for *)
(* orphans are exactly the filtered types: no DELETE is issued for another *)
(* type, also when resources of that type are auto-applied in the run.     *)
C8_TypeFilterScopesDeletion ==
    Len(filter.resourceTypes) > 0 =>
        /\ Range(typesToDelete) = Range(filter.resourceTypes)
        /\ \A i \in CallIndexes :
              calls[i].method = "DELETE" => calls[i].type \in Range(filter.resourceTypes)

\* A forced, type-filtered run has auto-applied a resource of another type
\* and finished with an orphan of that type still in the store.
C8_Witness ==
    /\ force
    /\ Len(filter.resourceTypes) > 0
    /\ pc = "done"
    /\ \E i \in CallIndexes :
          /\ calls[i].run = run
          /\ calls[i].kind = "auto"
          /\ calls[i].type \notin Range(filter.resourceTypes)
          /\ \E k \in Orphans(state, local, { calls[i].type }) : TRUE

\* The run applies one squad, which names one assistant, which names one
\* tool; none of the three is in the store, and the assistant has no other
\* dependency to create.
SquadChain ==
    /\ isPartialApply
    /\ \A t \in TypeSet \ { "squads" } : Scoped(t) = << >>
    /\ Len(Scoped("squads")) = 1
    /\ LET squad == Scoped("squads")[1]
           assistantIds == extractReferencedIds(squad.data).assistants
       IN  /\ ~Has(start, "squads", squad.resourceId)
           /\ Len(assistantIds) = 1
           /\ LocallyDefined(<< "assistants", assistantIds[1] >>)
           /\ ~Has(start, "assistants", assistantIds[1])
           /\ LET refs == extractReferencedIds(DataOf(<< "assistants", assistantIds[1] >>))
              IN  /\ Len(refs.tools) = 1
                  /\ LocallyDefined(<< "tools", refs.tools[1] >>)
                  /\ ~Has(start, "tools", refs.tools[1])
                  /\ \A id \in Range(refs.structuredOutputs) :
                        \/ Has(start, "structuredOutputs", id)
                        \/ ~LocallyDefined(<< "structuredOutputs", id >>)

(* C9. A run scoped to a single squad whose assistant, and that            *)
(* assistant's tool, have no store entries issues exactly three creates,   *)
(* tool, assistant, squad in this order, and ends with all three stored.   *)
C9_SquadChainCreatedInOrder ==
    (pc = "done" /\ SquadChain) =>
        LET squad == Scoped("squads")[1]
            assistantId == extractReferencedIds(squad.data).assistants[1]
            toolId == extractReferencedIds(DataOf(<< "assistants", assistantId >>)).tools[1]
            chain == << << "tools", toolId >>, << "assistants", assistantId >>,
                        << "squads", squad.resourceId >> >>
        IN  /\ [ i \in 1..Len(Posts) |-> Target(Posts[i]) ] = chain
            /\ \A i \in 1..Len(Posts) :
                  /\ Has(state, chain[i][1], chain[i][2])
                  /\ state[chain[i][1]][chain[i][2]] = Posts[i].uuid
                  /\ disk[chain[i][1]][chain[i][2]] = Posts[i].uuid

\* Such a run has finished.
C9_Witness == pc = "done" /\ SquadChain /\ Len(Posts) = 3

----------------------------------------------------------------------------
\* The calls of the current run that carried a payload for resource k, and
\* the payload of the last of them.
PayloadCalls(k) ==
    { i \in CallIndexes :
        calls[i].run = run /\ Target(calls[i]) = k /\ calls[i].method # "DELETE" }

LastPayload(k) ==
    calls[CHOOSE i \in PayloadCalls(k) : \A j \in PayloadCalls(k) : j <= i].body

ResourceIds(type) == { r.resourceId : r \in Range(AllResources(type)) }

\* The assistants the destinations of a tool name.
DestinationAssistants(data) ==
    IF "destinations" \in DOMAIN data
    THEN { BeforeMarker(d.assistantId) :
             d \in { x \in Range(data.destinations) : "assistantId" \in DOMAIN x } }
    ELSE {}

\* The assistants a structured output lists.
ListedAssistants(data) ==
    IF "assistant_ids" \in DOMAIN data
    THEN { BeforeMarker(a) : a \in Range(data["assistant_ids"]) }
    ELSE {}

\* Tool t hands off to assistant a, and a uses t.
ToolCycles ==
    { p \in ResourceIds("tools") \X ResourceIds("assistants") :
        /\ p[2] \in DestinationAssistants(DataOf(<< "tools", p[1] >>))
        /\ p[1] \in Range(extractReferencedIds(DataOf(<< "assistants", p[2] >>)).tools) }

\* Structured output o lists assistant a, and a uses o.
OutputCycles ==
    { p \in ResourceIds("structuredOutputs") \X ResourceIds("assistants") :
        /\ p[2] \in ListedAssistants(DataOf(<< "structuredOutputs", p[1] >>))
        /\ p[1] \in Range(extractReferencedIds(
                            DataOf(<< "assistants", p[2] >>)).structuredOutputs) }

(* C11. After a successful full run, for every tool and assistant (and     *)
(* every structured output and assistant) that the run applies and that    *)
(* name each other, the last payload sent for each of the two carries the  *)
(* other's remote id in the cyclic field, and not its local name.          *)
C11_CyclesClosedWithRemoteIds ==
    (pc = "done" /\ ~isPartialApply) =>
        /\ \A p \in ToolCycles :
              LET tool == LastPayload(<< "tools", p[1] >>)
                  assistant == LastPayload(<< "assistants", p[2] >>)
                  named == { d.assistantId :
                               d \in { x \in Range(tool.destinations) :
                                         "assistantId" \in DOMAIN x } }
              IN  /\ state["assistants"][p[2]] \in named
                  /\ \A a \in named : IsUUID(a)
                  /\ state["tools"][p[1]] \in Range(assistant.toolIds)
                  /\ p[1] \notin Range(assistant.toolIds)
        /\ \A p \in OutputCycles :
              LET output == LastPayload(<< "structuredOutputs", p[1] >>)
                  assistant == LastPayload(<< "assistants", p[2] >>)
              IN  /\ state["assistants"][p[2]] \in Range(output.assistantIds)
                  /\ \A a \in Range(output.assistantIds) : IsUUID(a)
                  /\ state["structuredOutputs"][p[1]]
                       \in Range(assistant.structuredOutputIds)
                  /\ p[1] \notin Range(assistant.structuredOutputIds)

\* A full run that began with no assistant in the store has closed a cycle
\* of either kind with a link call.
C11_Witness ==
    /\ pc = "done"
    /\ ~isPartialApply
    /\ DOMAIN start["assistants"] = {}
    /\ \E p \in ToolCycles : \E i \in PayloadCalls(<< "tools", p[1] >>) :
          calls[i].kind = "link"
    /\ \E p \in OutputCycles : \E i \in PayloadCalls(<< "structuredOutputs", p[1] >>) :
          calls[i].kind = "link"

\* The place of a type in the order of the passes.
TypeIndex(type) == CHOOSE i \in 1..Len(ResourceTypes) : ResourceTypes[i] = type

(* C12. In every run the direct passes come in the order tools, structured *)
(* outputs, assistants, squads, personalities, scenarios, simulations,     *)
(* simulation suites: of two successive direct calls of the run under way  *)
(* the second is never for an earlier type than the first.                 *)
C12_PassesInTypeOrder ==
    LET direct == SelectSeq(calls, LAMBDA c : c.run = run /\ c.kind = "apply")
    IN  \A i \in 1..(Len(direct) - 1) :
           TypeIndex(direct[i].type) <= TypeIndex(direct[i + 1].type)

\* A run has applied a resource of every type.
C12_Witness ==
    /\ pc = "done"
    /\ { calls[i].type : i \in { j \in CallIndexes :
                                   calls[j].run = run /\ calls[j].kind = "apply" } }
         = TypeSet

(* C13. Every per-resource apply is a PATCH to the stored remote id if the *)
(* store holds one for the resource at the time of the call, and a POST    *)
(* otherwise; a successful create stores the id the platform returned, a   *)
(* successful update leaves the store entry as it was.                     *)
C13_UpdateIffStored ==
    [][ (Issued /\ FirstPass(NewCall)) =>
          LET t == NewCall.type
              id == NewCall.id
          IN  /\ NewCall.method \in { "POST", "PATCH" }
              /\ NewCall.method = "PATCH" <=> Has(state, t, id)
              /\ NewCall.method = "PATCH" => NewCall.uuid = state[t][id]
              /\ NewCall.ok =>
                    /\ Has(state', t, id)
                    /\ state'[t][id] = NewCall.uuid
                    /\ NewCall.method = "POST" =>
                          \A i \in CallIndexes : calls[i].uuid # NewCall.uuid ]_vars

\* One run has created one resource and updated another.
C13_Witness ==
    \E i, j \in CallIndexes :
        /\ calls[i].run = run /\ calls[j].run = run
        /\ FirstPass(calls[i]) /\ FirstPass(calls[j])
        /\ calls[i].method = "POST" /\ calls[i].ok
        /\ calls[j].method = "PATCH" /\ calls[j].ok

\* The entries of a store that the store at run start did not hold, or held
\* with another remote id.
NewEntries(st) ==
    { k \in UNION { { << t, id >> : id \in DOMAIN st[t] } : t \in TypeSet } :
        ~Has(start, k[1], k[2]) \/ start[k[1]][k[2]] # st[k[1]][k[2]] }

(* C14. Every store entry that the store did not hold at run start was     *)
(* written for a create call of this run for that resource which returned  *)
(* successfully, and holds the id it returned.                             *)
C14_EntriesOnlyFromCreates ==
    /\ \A k \in NewEntries(state) :
          \E i \in CallsOn(run, "POST", k) :
             calls[i].ok /\ calls[i].uuid = state[k[1]][k[2]]
    /\ \A k \in NewEntries(disk) :
          \E i \in CallsOn(run, "POST", k) :
             calls[i].ok /\ calls[i].uuid = disk[k[1]][k[2]]

\* A create failed after another had succeeded.
C14_Witness ==
    /\ pc = "failed"
    /\ NewEntries(state) # {}
    /\ calls # << >>
    /\ calls[Len(calls)].method = "POST"
    /\ ~calls[Len(calls)].ok

(* C15. Once a create, update or link call of a run has failed, the run    *)
(* issues no further call and the process has exited with status 1.        *)
C15_FailureAbortsRun ==
    \A i \in CallIndexes :
        (calls[i].method # "DELETE" /\ ~calls[i].ok) =>
            /\ \A j \in CallIndexes : j > i => calls[j].run # calls[i].run
            /\ calls[i].run = run => pc = "failed"

\* A tool failed to apply in a run that had assistants still to apply.
C15_Witness ==
    /\ pc = "failed"
    /\ Len(Scoped("assistants")) > 0
    /\ \E i \in CallIndexes :
          /\ calls[i].run = run
          /\ calls[i].type = "tools"
          /\ calls[i].kind \in { "apply", "link" }
          /\ ~calls[i].ok

----------------------------------------------------------------------------
(* Vocabulary of the properties of the HTTP client.                        *)

\* The requests of the client call that is running or was the last to run.
Current == SelectSeq(sent, LAMBDA q : q.call = ncalls)

Answered(q) == "status" \in DOMAIN q.response
RateLimited(q) == Answered(q) /\ q.response.status = 429
Succeeded(q) == Answered(q) /\ Ok(q.response.status)
Refused(q) == Answered(q) /\ ~Ok(q.response.status) /\ q.response.status # 429
Rejected(q) == ~Answered(q)

InCall == at \in { "loop", "fetch" }
Settled == at \in { "returned", "thrown" }

(* C16. A client call answered with k times 429 (0 <= k <= 5) and then a   *)
(* 2xx response has returned, after exactly k backoff delays, the i-th of  *)
(* 2000 ms * 2^(i-1), each longer than the one before.                     *)
C16_BackoffThenReturn ==
    LET k == Len(Current) - 1
    IN  (/\ Len(Current) >= 1
         /\ k <= 5
         /\ \A i \in 1..k : RateLimited(Current[i])
         /\ Succeeded(Current[k + 1]))
        => /\ at = "returned"
           /\ outcome = Returns
           /\ delays = [ i \in 1..k |-> 2000 * 2^(i - 1) ]
           /\ \A i \in 1..(k - 1) : delays[i] < delays[i + 1]

\* The answers 429, 429, 200.
C16_Witness ==
    /\ at = "returned"
    /\ Len(Current) = 3
    /\ Len(delays) = 2
    /\ delays[2] > delays[1]

(* C17. A client call sends at most six requests; six answers of 429 make  *)
(* it throw a VapiApiError with statusCode 429; and every call that has    *)
(* begun returns or throws.                                                *)
C17_BoundedRetries ==
    /\ [](/\ Len(Current) <= 6
          /\ (Len(Current) = 6 /\ \A i \in 1..6 : RateLimited(Current[i]))
             => /\ at = "thrown"
                /\ outcome = VapiApiError(request.method, request.endpoint, 429))
    /\ [](InCall => <>Settled)

\* Six answers of 429.
C17_Witness ==
    /\ at = "thrown"
    /\ Len(Current) = 6
    /\ \A i \in 1..6 : RateLimited(Current[i])

(* C18. A response that is neither 2xx nor 429 ends the call at once: it   *)
(* is the call's last request, no backoff delay follows it, and the call   *)
(* has thrown a VapiApiError with the call's method and endpoint and the   *)
(* status of that response.                                                *)
C18_OtherErrorsFailAtOnce ==
    \A i \in 1..Len(Current) :
        Refused(Current[i]) =>
            /\ i = Len(Current)
            /\ Len(delays) = i - 1
            /\ at = "thrown"
            /\ outcome = VapiApiError(Current[i].method, Current[i].endpoint,
                                      Current[i].response.status)

\* A 500 after one 429.
C18_Witness ==
    /\ at = "thrown"
    /\ Len(Current) = 2
    /\ RateLimited(Current[1])
    /\ Refused(Current[2])
    /\ Current[2].response.status = 500

(* C19. Any two consecutive requests, of one client call or of two, of     *)
(* whatever method, are let through at least 700 ms apart on the clock     *)
(* recorded in lastRequestTime.                                            *)
C19_RequestsSpaced ==
    \A i \in 1..(Len(sent) - 1) : sent[i + 1].time - sent[i].time >= 700

\* Two calls of different methods, the second held back by throttle() to
\* exactly the minimum spacing.
C19_Witness ==
    \E i \in 1..(Len(sent) - 1) :
        /\ sent[i + 1].call # sent[i].call
        /\ sent[i + 1].method # sent[i].method
        /\ sent[i + 1].time - sent[i].time = 700

(* C20. A call in which a fetch was rejected (a transport failure) throws  *)
(* only when its retries are exhausted, and then a VapiApiError with       *)
(* statusCode 429.                                                         *)
C20_TransportFailuresRetried ==
    (at = "thrown" /\ \E i \in 1..Len(Current) : Rejected(Current[i])) =>
        /\ Len(Current) = MAX_RETRIES + 1
        /\ outcome.name = "VapiApiError"
        /\ outcome.statusCode = 429

----------------------------------------------------------------------------
(* Vocabulary of the properties of the order of a run.                     *)

\* The calls of the run under way, in the order they were issued.
RunCalls == SelectSeq(calls, LAMBDA c : c.run = run)

\* The link calls of the run under way on resource k.
LinkCalls(k) ==
    { i \in CallIndexes :
        calls[i].run = run /\ calls[i].kind = "link" /\ Target(calls[i]) = k }

\* The document of a resource as the Loader produced it.
LoadedData(k) == Find(local[k[1]], k[2]).data

(* C23. In every run the orphan check and every DELETE call come before    *)
(* the first create or update call, and what is deleted is an entry of the *)
(* store as loaded at run start, addressed by the remote id it held then.  *)
C23_DeletionBeforeApply ==
    /\ (\E j \in 1..Len(todo) : todo[j].op = "deleteOrphans") => RunCalls = << >>
    /\ \A i \in 1..Len(RunCalls) :
          RunCalls[i].method = "DELETE" =>
              /\ i > 1 => RunCalls[i - 1].method = "DELETE"
              /\ Has(start, RunCalls[i].type, RunCalls[i].id)
              /\ RunCalls[i].uuid = start[RunCalls[i].type][RunCalls[i].id]

\* A run has deleted an orphan and then created a resource.
C23_Witness ==
    \E i \in 1..(Len(RunCalls) - 1) :
        /\ RunCalls[i].method = "DELETE" /\ RunCalls[i].ok
        /\ RunCalls[i + 1].method = "POST" /\ RunCalls[i + 1].ok

(* C25. Within one run each resource is auto-applied as a dependency at    *)
(* most once: a later request to ensure the same resource issues no call.  *)
C25_AutoAppliedAtMostOnce ==
    \A i, j \in 1..Len(RunCalls) :
        ( /\ RunCalls[i].kind = "auto" /\ RunCalls[j].kind = "auto"
          /\ Target(RunCalls[i]) = Target(RunCalls[j]) ) => i = j

\* A tool was auto-applied for an assistant of the assistants pass, and the
\* squads pass has since auto-applied that assistant, which asks for the
\* tool once more.
C25_Witness ==
    /\ pc = "done"
    /\ \E i, j \in 1..Len(RunCalls) :
          /\ i < j
          /\ RunCalls[i].kind = "auto" /\ RunCalls[i].type = "tools"
          /\ RunCalls[j].kind = "auto" /\ RunCalls[j].type = "assistants"
          /\ Target(RunCalls[i]) \in ReferencedKeys(DataOf(Target(RunCalls[j])))
          /\ \E k \in 1..Len(RunCalls) :
                /\ i < k /\ k < j
                /\ RunCalls[k].kind = "apply" /\ RunCalls[k].type = "assistants"

(* C26. In every run every link PATCH of the second pass comes after the   *)
(* last create or update call of the first pass, whatever its type, and    *)
(* the links of tools come before the links of structured outputs.         *)
C26_LinksAfterFirstPass ==
    \A i \in 1..(Len(RunCalls) - 1) :
        RunCalls[i].kind = "link" =>
            /\ RunCalls[i + 1].kind = "link"
            /\ RunCalls[i].type = "structuredOutputs"
                  => RunCalls[i + 1].type = "structuredOutputs"

\* A run has applied a simulation suite, then linked a tool, then linked a
\* structured output.
C26_Witness ==
    \E i \in 1..(Len(RunCalls) - 2) :
        /\ RunCalls[i].kind = "apply" /\ RunCalls[i].type = "simulationSuites"
        /\ RunCalls[i + 1].kind = "link" /\ RunCalls[i + 1].type = "tools"
        /\ \E j \in (i + 2)..Len(RunCalls) :
              RunCalls[j].kind = "link" /\ RunCalls[j].type = "structuredOutputs"

(* C27. Every link PATCH of the second pass goes to a resource that has a  *)
(* store entry, to the remote id of that entry, and whose document has the *)
(* cyclic field: a tool with a destination that names an assistant, a      *)
(* structured output with a non-empty list of assistants.  A tool without  *)
(* such a destination, a structured output without such a list and a       *)
(* resource without a store entry receive none.                            *)
C27_LinkOnlyWhereCyclic ==
    \A i \in 1..Len(RunCalls) :
        RunCalls[i].kind = "link" =>
            LET k == Target(RunCalls[i])
            IN  /\ RunCalls[i].method = "PATCH"
                /\ Has(state, k[1], k[2])
                /\ RunCalls[i].uuid = state[k[1]][k[2]]
                /\ k[1] \in { "tools", "structuredOutputs" }
                /\ k[1] = "tools" => DestinationAssistants(LoadedData(k)) # {}
                /\ k[1] = "structuredOutputs" => ListedAssistants(LoadedData(k)) # {}

\* A run that applied the tool without destinations has come to its end
\* with a link for another tool and none for that one.
C27_Witness ==
    /\ pc = "done"
    /\ \E i \in 1..Len(RunCalls) :
          /\ RunCalls[i].kind = "apply" /\ RunCalls[i].ok
          /\ RunCalls[i].type = "tools"
          /\ DestinationAssistants(LoadedData(Target(RunCalls[i]))) = {}
          /\ LinkCalls(Target(RunCalls[i])) = {}
    /\ \E i \in 1..Len(RunCalls) :
          RunCalls[i].kind = "link" /\ RunCalls[i].type = "tools"

(* C28. In the second pass of one run each tool or structured output that  *)
(* the run applied and that has the cyclic field receives exactly one link *)
(* PATCH, also when it was applied both in its type pass and again as an   *)
(* auto-applied dependency.                                                *)
C28_OneLinkPerResource ==
    \A k \in Keys :
        /\ Cardinality(LinkCalls(k)) <= 1
        /\ ( /\ pc = "done"
             /\ \E i \in 1..Len(RunCalls) :
                   FirstPass(RunCalls[i]) /\ Target(RunCalls[i]) = k
             /\ \/ k[1] = "tools" /\ DestinationAssistants(LoadedData(k)) # {}
                \/ k[1] = "structuredOutputs" /\ ListedAssistants(LoadedData(k)) # {} )
           => Cardinality(LinkCalls(k)) = 1

(* C29. Every link PATCH of the second pass carries only remote ids in its *)
(* cyclic field: no destination sent for a tool and no entry of the list   *)
(* sent for a structured output is still a local name, also in a partial   *)
(* run in which the named assistant is not in scope and has no store       *)
(* entry.                                                                  *)
C29_LinksCarryRemoteIds ==
    \A i \in CallIndexes :
        calls[i].kind = "link" =>
            /\ calls[i].type = "tools" =>
                  \A d \in Range(calls[i].body.destinations) :
                     "assistantId" \in DOMAIN d => IsUUID(d.assistantId)
            /\ calls[i].type = "structuredOutputs" =>
                  \A a \in Range(calls[i].body.assistantIds) : IsUUID(a)

\* What is left of resolved destinations once those that still name an
\* assistant by a local name are taken out.
WithoutLocalNames(destinations) ==
    SelectSeq(destinations,
              LAMBDA d : "assistantId" \in DOMAIN d => IsUUID(d.assistantId))

(* C30. The payload of every POST for a tool holds no destination whose    *)
(* assistantId is a local name without a store entry and holds every other *)
(* destination of the document, resolved, in the original order; the       *)
(* payload of every POST for a structured output has no assistantIds.      *)
C30_CreatePayloadsStripped ==
    [][ (Issued /\ NewCall.method = "POST") =>
          LET k == Target(NewCall)
          IN  /\ ( k[1] = "tools" /\ "destinations" \in DOMAIN DataOf(k) ) =>
                    NewCall.body.destinations =
                        WithoutLocalNames(
                            resolveReferences(DataOf(k), state).destinations)
              /\ k[1] = "structuredOutputs" =>
                    "assistantIds" \notin DOMAIN NewCall.body ]_vars

----------------------------------------------------------------------------
(* Vocabulary of the properties of the resolver.                           *)

\* The references a document holds, each as << field, place, type, value >>.
\* The list of assistants of a structured output counts as one field under
\* either spelling.
ListReferences(data, field, as, type) ==
    IF field \in DOMAIN data
    THEN { << as, i, type, data[field][i] >> : i \in 1..Len(data[field]) }
    ELSE {}

ScalarReferences(data, field, type) ==
    IF field \in DOMAIN data THEN { << field, 0, type, data[field] >> } ELSE {}

ObjectReferences(data, field, key, type) ==
    IF field \in DOMAIN data
    THEN { << field, i, type, data[field][i][key] >> :
             i \in { j \in 1..Len(data[field]) : key \in DOMAIN data[field][j] } }
    ELSE {}

References(data) ==
    ListReferences(data, "toolIds", "toolIds", "tools")
    \cup ListReferences(data, "structuredOutputIds", "structuredOutputIds",
                        "structuredOutputs")
    \cup ListReferences(data, "simulationIds", "simulationIds", "simulations")
    \cup ListReferences(data, "assistant_ids", "assistantIds", "assistants")
    \cup ListReferences(data, "assistantIds", "assistantIds", "assistants")
    \cup ScalarReferences(data, "personalityId", "personalities")
    \cup ScalarReferences(data, "scenarioId", "scenarios")
    \cup ObjectReferences(data, "destinations", "assistantId", "assistants")
    \cup ObjectReferences(data, "members", "assistantId", "assistants")
    \cup ObjectReferences(data, "evaluations", "structuredOutputId",
                          "structuredOutputs")

\* The reference of a document at the place of reference r.
At(data, r) ==
    CHOOSE q \in References(data) : q[1] = r[1] /\ q[2] = r[2] /\ q[3] = r[3]

SamePlaces(data, other) ==
    { << r[1], r[2], r[3] >> : r \in References(data) }
        = { << r[1], r[2], r[3] >> : r \in References(other) }

\* Reference r names a local id the store has no entry for.
Unknown(r) == ~IsUUID(r[4]) /\ ~Has(state, r[3], BeforeMarker(r[4]))

(* C21. Resolving is idempotent: resolving a resolved document against the *)
(* same store yields it again, and a reference already written as a remote *)
(* id comes back unchanged.                                                *)
C21_ResolveIdempotent ==
    /\ Len(resolutions) >= 1 =>
          /\ SamePlaces(doc, resolutions[1])
          /\ \A r \in References(doc) :
                IsUUID(r[4]) => At(resolutions[1], r) = r
    /\ Len(resolutions) >= 2 => resolutions[2] = resolutions[1]

\* A document with a known local name, an unknown one and a remote id has
\* been resolved twice.
C21_Witness ==
    /\ Len(resolutions) = 2
    /\ resolutions[1] # doc
    /\ \E r \in References(doc) : IsUUID(r[4])
    /\ \E r \in References(doc) : Unknown(r)
    /\ \E r \in References(doc) : ~IsUUID(r[4]) /\ ~Unknown(r)

(* C22. Resolving a document that names a local id without a store entry   *)
(* raises nothing: the result holds that local id at the same place, and   *)
(* every other reference with a store entry holds the remote id of the     *)
(* entry.                                                                  *)
C22_UnknownReferencesTolerated ==
    Len(resolutions) >= 1 =>
        /\ SamePlaces(doc, resolutions[1])
        /\ \A r \in References(doc) :
              LET value == At(resolutions[1], r)[4]
              IN  /\ Unknown(r) => value = BeforeMarker(r[4])
                  /\ (~IsUUID(r[4]) /\ ~Unknown(r)) =>
                        value = state[r[3]][BeforeMarker(r[4])]

\* A document that names one resource the store holds and one it does not
\* has been resolved.
C22_Witness ==
    /\ Len(resolutions) >= 1
    /\ \E r, q \in References(doc) :
          /\ Unknown(r)
          /\ ~IsUUID(q[4]) /\ ~Unknown(q)
          /\ At(resolutions[1], r)[4] = BeforeMarker(r[4])
          /\ IsUUID(At(resolutions[1], q)[4])

----------------------------------------------------------------------------
(* C24. No step of a run changes the payload of a loaded document: the     *)
(* Loader's lists stay as they are, and the lists main() holds are, at     *)
(* every step of a run up to and through the second pass, the Loader's     *)
(* documents with the credentials replaced.                                *)
C24_DocumentsNotMutated ==
    [][ /\ local' = local
        /\ pc' # "idle" => memory' = LoadedResources(start') ]_vars

\* The second pass has linked a tool that the same run created with a
\* shorter list of destinations than its document holds.
C24_Witness ==
    \E i, j \in 1..Len(RunCalls) :
        /\ i < j
        /\ Target(RunCalls[i]) = Target(RunCalls[j])
        /\ RunCalls[i].method = "POST" /\ RunCalls[i].type = "tools"
        /\ RunCalls[j].kind = "link"
        /\ Len(RunCalls[i].body.destinations) < Len(RunCalls[j].body.destinations)
        /\ Len(RunCalls[j].body.destinations)
             = Len(LoadedData(Target(RunCalls[j])).destinations)

----------------------------------------------------------------------------
(* C31. When a tool is created, every destination whose assistantId is     *)
(* resolved, i.e. is a remote id after resolution, is kept, also one that  *)
(* the document names by its remote id; what is removed is exactly the     *)
(* destinations whose assistantId stayed a local name.                     *)
C31_ResolvedDestinationsKept ==
    [][ ( /\ Issued
          /\ NewCall.method = "POST" /\ NewCall.type = "tools"
          /\ "destinations" \in DOMAIN DataOf(Target(NewCall)) ) =>
          LET resolvedDests ==
                  resolveReferences(DataOf(Target(NewCall)), state).destinations
          IN  \A d \in Range(resolvedDests) :
                 d \in Range(NewCall.body.destinations)
                    <=> ("assistantId" \in DOMAIN d => IsUUID(d.assistantId)) ]_vars

(* C32. A run scoped by file paths applies in its type passes only         *)
(* resources whose file is one of the given paths: a resource of another   *)
(* type whose id equals the file name of a path, or is a suffix of it, is  *)
(* not applied (auto-applied dependencies are another matter).             *)
C32_PathScopeByLocation ==
    Len(filter.filePaths) > 0 =>
        \A i \in CallIndexes :
            calls[i].kind = "apply" =>
                \E p \in 1..Len(filter.filePaths) :
                    EndsWith(FilePath(calls[i].type, calls[i].id), filter.filePaths[p])

(* C33. A loaded resource marked _platformDefault is the target of no call *)
(* of any run: no create or update, in its type pass or as an auto-applied *)
(* dependency, no link, and no DELETE as an orphan.                        *)
C33_DefaultsNeverTouched ==
    \A i \in CallIndexes :
        LET k == Target(calls[i])
        IN  Found(local[k[1]], k[2]) => ~isDefault(Find(local[k[1]], k[2]))

\* A run with deletions enabled has come to its end; it deleted an orphan
\* and applied a resource that names a platform default the store holds.
C33_Witness ==
    /\ pc = "done"
    /\ \E i \in 1..Len(RunCalls) : RunCalls[i].method = "DELETE" /\ RunCalls[i].ok
    /\ \E t \in TypeSet : \E r \in Range(local[t]) :
          /\ isDefault(r)
          /\ Has(start, t, r.resourceId)
          /\ \E j \in 1..Len(RunCalls) :
                /\ FirstPass(RunCalls[j]) /\ RunCalls[j].ok
                /\ << t, r.resourceId >>
                     \in ReferencedKeys(LoadedData(Target(RunCalls[j])))

(* C36. No update (PATCH) of the first pass for a tool carries a           *)
(* destination whose assistantId is still a local name, also not the       *)
(* re-apply of a tool as a dependency of an assistant that has no store    *)
(* entry yet.                                                              *)
C36_ToolUpdatesCarryRemoteIds ==
    \A i \in CallIndexes :
        ( /\ FirstPass(calls[i])
          /\ calls[i].method = "PATCH" /\ calls[i].type = "tools"
          /\ "destinations" \in DOMAIN calls[i].body ) =>
            \A d \in Range(calls[i].body.destinations) :
               "assistantId" \in DOMAIN d => IsUUID(d.assistantId)

(* C37. Across a run that aborts and the run that follows it with the same *)
(* local files, no resource is created twice: the platform never answers   *)
(* two create calls (POST) for one local resource.                         *)
C37_NoSecondCreate ==
    \A i, j \in CallIndexes :
        ( /\ calls[i].method = "POST" /\ calls[i].ok
          /\ calls[j].method = "POST" /\ calls[j].ok
          /\ Target(calls[i]) = Target(calls[j]) ) => i = j

(* C39. After a successful full run every loaded resource that is no       *)
(* platform default has a store entry, in memory and on disk, and every    *)
(* such resource that had an entry at run start has the same remote id in  *)
(* it.                                                                     *)
C39_FullRunStoresEverything ==
    (pc = "done" /\ ~isPartialApply) =>
        \A t \in TypeSet : \A r \in Range(filterDefaults(local[t])) :
            /\ Has(state, t, r.resourceId)
            /\ Has(disk, t, r.resourceId)
            /\ disk[t][r.resourceId] = state[t][r.resourceId]
            /\ Has(start, t, r.resourceId) =>
                  state[t][r.resourceId] = start[t][r.resourceId]

\* A full run has come to its end that created one resource and updated
\* another, which it found in the store.
C39_Witness ==
    /\ pc = "done"
    /\ ~isPartialApply
    /\ \E i, j \in 1..Len(RunCalls) :
          /\ RunCalls[i].method = "POST" /\ RunCalls[i].ok
          /\ RunCalls[j].method = "PATCH" /\ FirstPass(RunCalls[j])
          /\ Has(start, RunCalls[j].type, RunCalls[j].id)

\* The entries of a store, as << type, id, remote id >>.
Entries(st) ==
    UNION { { << t, id, st[t][id] >> : id \in DOMAIN st[t] } : t \in TypeSet }

(* C40. A create or update of the first pass for a resource, whether it    *)
(* succeeds or fails, leaves every store entry of another resource as it   *)
(* was; a link PATCH of the second pass leaves the whole store as it was;  *)
(* none of these steps removes a store entry.                              *)
C40_StoreFrame ==
    [][ (Issued /\ NewCall.method # "DELETE") =>
          /\ FirstPass(NewCall) =>
                /\ \A e \in Entries(state) :
                      << e[1], e[2] >> # Target(NewCall) => e \in Entries(state')
                /\ \A e \in Entries(state') :
                      << e[1], e[2] >> # Target(NewCall) => e \in Entries(state)
                /\ Has(state, NewCall.type, NewCall.id)
                      => Has(state', NewCall.type, NewCall.id)
                /\ state'["credentials"] = state["credentials"]
          /\ NewCall.kind = "link" => state' = state ]_vars

\* A create has succeeded with entries of other resources in the store, a
\* create has failed, and a link has been sent.
C40_Witness ==
    /\ \E i \in CallIndexes :
          /\ calls[i].method = "POST" /\ calls[i].ok
          /\ \E t \in TypeSet : \E id \in DOMAIN start[t] : << t, id >> # Target(calls[i])
    /\ \E i \in CallIndexes : FirstPass(calls[i]) /\ ~calls[i].ok
    /\ \E i \in CallIndexes : calls[i].kind = "link"

----------------------------------------------------------------------------
(* Termination of a run.                                                   *)

\* An upper bound on the steps an item of the plan stands for: itself and
\* whatever it can put in its place.
Weight(item) ==
    CASE item.op = "deleteOrphans" -> 1 + Cardinality(Entries(state))
      [] item.op = "ensureAssistant" ->
           2 + (IF Found(AllResources("assistants"), item.id)
                THEN Len(ToolAndOutputItems(
                             Find(AllResources("assistants"), item.id).data))
                ELSE 0)
      [] item.op = "linkTools" ->
           1 + Len(Scoped("tools")) + Len(AllResources("tools"))
      [] item.op = "linkOutputs" ->
           1 + Len(Scoped("structuredOutputs")) + Len(AllResources("structuredOutputs"))
      [] OTHER -> 1

\* The items that stand for one step each: no step puts anything in their
\* place.
Leaves ==
    { "delete", "apply", "ensureTool", "ensureOutput", "autoAssistant",
      "linkTool", "linkOutput", "save" }

\* The items a step of main() takes from the front of the plan.
Steps == Leaves \cup { "deleteOrphans", "ensureAssistant", "linkTools", "linkOutputs" }

(* C38. Every run terminates after a finite number of remote calls.  The   *)
(* sum of the weights of the plan is a natural number; a run under way has *)
(* a next item that a step takes; every step takes the first item and puts *)
(* fewer single-step items in its place than the item weighs, a step that  *)
(* issues a remote call puts none, so every step lowers the sum and every  *)
(* call lowers it by one.  Resolving dependencies goes from a squad to its *)
(* assistants and from an assistant to its tools and structured outputs    *)
(* and no further, so a reference cycle between a tool (or a structured    *)
(* output) and an assistant does not keep the run going.                   *)
C38_RunTerminates ==
    /\ [](pc = "running" =>
            /\ todo # << >>
            /\ Head(todo).op \in Steps
            /\ \A j \in 2..Len(todo) : todo[j].op # "deleteOrphans")
    /\ [][ (pc = "running" /\ run' = run /\ pc' = "running") =>
             LET n == Len(todo') - Len(todo) + 1
             IN  /\ n >= 0
                 /\ n < Weight(Head(todo))
                 /\ SubSeq(todo', n + 1, Len(todo')) = Tail(todo)
                 /\ \A j \in 1..n : todo'[j].op \in Leaves
                 /\ Len(calls') \in { Len(calls), Len(calls) + 1 }
                 /\ Len(calls') = Len(calls) + 1 => n = 0 ]_vars

\* A full run over a tool and an assistant that name each other, and over
\* a structured output and an assistant that name each other, has come to
\* its end, having auto-applied the assistant for a squad.
C38_Witness ==
    /\ pc = "done"
    /\ ToolCycles # {}
    /\ OutputCycles # {}
    /\ \E i \in 1..Len(RunCalls) :
          RunCalls[i].kind = "auto" /\ RunCalls[i].type = "assistants"

----------------------------------------------------------------------------
(* The sync commands.                                                      *)

\* The positions in the log of the commands of one kind.
Ran(cmd) == { i \in 1..Len(commands) : commands[i].cmd = cmd }

\* A stash entry was saved by this run before position i.
StashedBefore(i) ==
    \E j \in Ran("stash push") :
       j < i /\ commands[j].status = 0 /\ commands[j].entry = "sync"

\* C35: in the pull-then-push apply command the --force flag is never
\* passed to the pull step (which gets the other arguments, in their order)
\* and the push step gets every argument, so --force whenever it was given;
\* the push step runs only right after a pull step that exited with 0.
C35_ForceOnlyToPush ==
    /\ \A i \in Ran("pull") :
          /\ \A k \in 1..Len(commands[i].args) : commands[i].args[k] # "--force"
          /\ commands[i].args = SelectSeq(argv, LAMBDA a : a # "--force")
    /\ \A i \in Ran("push") :
          /\ commands[i].args = argv
          /\ (\E k \in 1..Len(argv) : argv[k] = "--force")
                => \E k \in 1..Len(commands[i].args) : commands[i].args[k] = "--force"
          /\ i > 1
          /\ commands[i - 1].cmd = "pull"
          /\ commands[i - 1].status = 0

\* The command was given --force among other arguments, pulled without it
\* and pushed with it.
C35_Witness ==
    /\ step = "exit0"
    /\ Len(argv) > 1
    /\ \E k \in 1..Len(argv) : argv[k] = "--force"
    /\ \E i \in Ran("pull") : commands[i].args # << >>
    /\ \E i \in Ran("push") : commands[i].args = argv

\* C34: in the bidirectional sync the push step runs only after the pull
\* step exited with 0 and, when local changes had been stashed, after a
\* stash pop succeeded; if the pull fails the stash is popped before the
\* exit; and a stash pop is attempted only if a stash was pushed in this
\* run.
C34_PushAfterPullAndPop ==
    /\ \A i \in Ran("push") :
          /\ \E j \in Ran("pull") : j < i /\ commands[j].status = 0
          /\ StashedBefore(i) =>
                \E j \in Ran("stash pop") : j < i /\ commands[j].status = 0
    /\ (step = "exit1" /\ \E j \in Ran("pull") :
                             commands[j].status # 0 /\ StashedBefore(j))
          => \E i \in Ran("stash pop") : \A j \in Ran("pull") : j < i
    /\ \A i \in Ran("stash pop") : StashedBefore(i)

====
